---- MODULE Spec2Model ----
(***************************************************************************)
(* Model of the changebot monitor: the differ (compareContent,             *)
(* generateDiff, truncateText), the notification router (resolveNotifiers, *)
(* sendToAllChannels, shouldSendErrorNotification, sendErrorNotification,  *)
(* sendChangeNotification) and the orchestrator (main, monitorWebsite)     *)
(* with the snapshot store of one monitored resource.                      *)
(*                                                                         *)
(* JavaScript strings are sequences of one-character strings, so that      *)
(* split, slice, length and the truncation markers are computed as the     *)
(* code computes them.  An optional value (T | undefined, T | null) is the *)
(* empty sequence when absent and the one-element sequence <<v>> when      *)
(* present.                                                                *)
(***************************************************************************)
EXTENDS Integers, Sequences, FiniteSets, TLC

VARIABLES
    store,      \* the persisted Snapshot of the resource (None before the first save)
    now,        \* Date.now(), in milliseconds
    website,    \* the monitored Website of the configuration
    config,     \* the Config: settings and the named-channel registry
    lastRun,    \* history: what the latest run of main did for the resource
    burst,      \* history: the error notifications dispatched since the last successful fetch
    alerts,     \* history: the error notifications delivered over all the runs
    call        \* the pending or completed call of a pure function and its arguments

vars == <<store, now, website, config, lastRun, burst, alerts, call>>

(***************************************************************************)
(* Optional values and strings.                                            *)
(***************************************************************************)
None == <<>>

Some(v) == <<v>>

\* The value of a singleton set: const x = e is written The({F(x) : x \in {e}}),
\* which evaluates e once
The(S) == CHOOSE x \in S : TRUE

EmptyStr == <<>>

NL == "\n"

Max(a, b) == IF a >= b THEN a ELSE b

Min(a, b) == IF a <= b THEN a ELSE b

DigitChar(d) ==
    CASE d = 0 -> "0" [] d = 1 -> "1" [] d = 2 -> "2" [] d = 3 -> "3" [] d = 4 -> "4"
      [] d = 5 -> "5" [] d = 6 -> "6" [] d = 7 -> "7" [] d = 8 -> "8" [] d = 9 -> "9"

RECURSIVE NatToStr(_)
NatToStr(n) == IF n < 10 THEN <<DigitChar(n)>> ELSE NatToStr(n \div 10) \o <<DigitChar(n % 10)>>

\* `${n}` of a template literal, n an integer
NumToStr(n) == IF n < 0 THEN <<"-">> \o NatToStr(0 - n) ELSE NatToStr(n)

\* text.split("\n"): always at least one piece
RECURSIVE SplitLoop(_, _, _)
SplitLoop(text, i, cur) ==
    IF i > Len(text) THEN <<cur>>
    ELSE IF text[i] = NL THEN <<cur>> \o SplitLoop(text, i + 1, EmptyStr)
    ELSE SplitLoop(text, i + 1, Append(cur, text[i]))

SplitLines(text) == SplitLoop(text, 1, EmptyStr)

\* lines.join("\n")
RECURSIVE JoinLines(_)
JoinLines(lines) ==
    IF Len(lines) = 0 THEN EmptyStr
    ELSE IF Len(lines) = 1 THEN lines[1]
    ELSE lines[1] \o <<NL>> \o JoinLines(Tail(lines))

\* s.slice(0, n), n >= 0
Slice0(s, n) == SubSeq(s, 1, Min(n, Len(s)))

\* s.trimEnd(): the whitespace of the model's alphabet is the blank
RECURSIVE TrimEnd(_)
TrimEnd(s) ==
    IF Len(s) > 0 /\ s[Len(s)] = " " THEN TrimEnd(SubSeq(s, 1, Len(s) - 1)) ELSE s

(***************************************************************************)
(* utils: truncateText.                                                    *)
(***************************************************************************)
Ellipsis == <<".", ".", ".">>

\* `\n... and ${n} more lines`
MoreLinesMarker(n) ==
    <<NL, ".", ".", ".", " ", "a", "n", "d", " ">> \o NumToStr(n)
        \o <<" ", "m", "o", "r", "e", " ", "l", "i", "n", "e", "s">>

\* `\n... (truncated, ${n} more characters)`
MoreCharsMarker(n) ==
    <<NL, ".", ".", ".", " ", "(", "t", "r", "u", "n", "c", "a", "t", "e", "d", ",", " ">>
        \o NumToStr(n)
        \o <<" ", "m", "o", "r", "e", " ", "c", "h", "a", "r", "a", "c", "t", "e", "r", "s", ")">>

\* The per-line character cap: line.slice(0, maxLength) + "..." for a line
\* longer than maxLength.
ProcessedLineNoSlice(line, options) ==
    IF options.maxLength # None /\ Len(line) > options.maxLength[1]
    THEN line \o Ellipsis
    ELSE line

ProcessedLine(line, options) ==
    IF options.maxLength # None /\ Len(line) > options.maxLength[1]
    THEN Slice0(line, options.maxLength[1]) \o Ellipsis
    ELSE line

\* processedLine.length + (result ? 1 : 0)
LineSize(processedLine, result) ==
    Len(processedLine) + (IF result # EmptyStr THEN 1 ELSE 0)

\* The body of truncateText's loop at index i (0-based in the code, 1-based
\* here), carrying result and totalSize.  The returned record also tells how
\* the loop ended: "none" (every line emitted), "lines" (break at maxLines)
\* or "size" (break at maxTotalSize), the result before the marker (kept)
\* and the number of lines the loop emitted.
RECURSIVE TruncateLoop(_, _, _, _, _, _)
TruncateLoop(text, lines, i, result, totalSize, options) ==
    IF i > Len(lines)
    THEN [result |-> result, cut |-> "none", kept |-> result, emitted |-> i - 1]
    ELSE IF options.maxLines # None /\ i - 1 >= options.maxLines[1]
    THEN [result |-> result \o MoreLinesMarker(Len(lines) - (i - 1)), cut |-> "lines",
          kept |-> result, emitted |-> i - 1]
    ELSE
        LET processedLine == ProcessedLine(lines[i], options)
            lineSize == LineSize(processedLine, result)
        IN  IF options.maxTotalSize # None /\ totalSize + lineSize > options.maxTotalSize[1]
            THEN [result |-> result \o MoreCharsMarker(Len(text) - totalSize), cut |-> "size",
                  kept |-> result, emitted |-> i - 1]
            ELSE TruncateLoop(text, lines, i + 1,
                              result \o (IF result # EmptyStr THEN <<NL>> ELSE EmptyStr)
                                     \o processedLine,
                              totalSize + lineSize, options)

truncateRun(text, options) == TruncateLoop(text, SplitLines(text), 1, EmptyStr, 0, options)

truncateText(text, options) == truncateRun(text, options).result

(***************************************************************************)
(* utils: TRUNCATION_LIMITS, scaled down so that every stage of the        *)
(* truncation is reached by short texts (source: 200, 20, 2000).           *)
(***************************************************************************)
MaxLineLength == 4

MaxDiffLines == 3

MaxDiffSize == 14

TRUNCATION_LIMITS ==
    [MAX_LINE_LENGTH |-> MaxLineLength, MAX_DIFF_LINES |-> MaxDiffLines,
     MAX_DIFF_SIZE |-> MaxDiffSize]

(***************************************************************************)
(* differ: generateDiff and compareContent.  diffLines is the jsdiff       *)
(* library: its result, a sequence of change objects                       *)
(* [added, removed, value], is an input of the model.                      *)
(***************************************************************************)
\* change.value.split("\n").filter((l) => l !== "")
NonEmptyLines(value) == SelectSeq(SplitLines(value), LAMBDA l : l # EmptyStr)

\* `+ ${line.trimEnd()}` / `- ${line.trimEnd()}` for each line of one change
RECURSIVE PrefixLines(_, _)
PrefixLines(sign, changeLines) ==
    IF Len(changeLines) = 0 THEN <<>>
    ELSE <<(<<sign, " ">> \o TrimEnd(changeLines[1]))>> \o PrefixLines(sign, Tail(changeLines))

ChangeLinesKeepContext(change) ==
    IF change.added THEN PrefixLines("+", NonEmptyLines(change.value))
    ELSE IF change.removed THEN PrefixLines("-", NonEmptyLines(change.value))
    ELSE PrefixLines(" ", NonEmptyLines(change.value))

\* The lines one change contributes: unchanged parts contribute none.
ChangeLines(change) ==
    IF change.added THEN PrefixLines("+", NonEmptyLines(change.value))
    ELSE IF change.removed THEN PrefixLines("-", NonEmptyLines(change.value))
    ELSE <<>>

RECURSIVE DiffLinesOf(_)
DiffLinesOf(changes) ==
    IF Len(changes) = 0 THEN <<>>
    ELSE ChangeLines(changes[1]) \o DiffLinesOf(Tail(changes))

\* generateDiff(oldContent, newContent), changes == diffLines(oldContent, newContent)
generateDiff(changes) ==
    truncateText(JoinLines(DiffLinesOf(changes)),
                 [maxLength |-> Some(TRUNCATION_LIMITS.MAX_LINE_LENGTH),
                  maxLines |-> Some(TRUNCATION_LIMITS.MAX_DIFF_LINES),
                  maxTotalSize |-> Some(TRUNCATION_LIMITS.MAX_DIFF_SIZE)])

\* !oldHash with oldHash = oldEntry?.hash: undefined and "" are both falsy
NoOldHashEntryOnly(oldEntry) == oldEntry = None

NoOldHash(oldEntry) == oldEntry = None \/ oldEntry[1].hash = EmptyStr

FirstRunResultChanged(url, name, newHash) ==
    [url |-> url, name |-> name, changed |-> TRUE, isFirstRun |-> TRUE,
     oldHash |-> None, newHash |-> Some(newHash), diff |-> Some(EmptyStr), error |-> None]

\* The ChangeResult of the first-run branch
FirstRunResult(url, name, newHash) ==
    [url |-> url, name |-> name, changed |-> FALSE, isFirstRun |-> TRUE,
     oldHash |-> None, newHash |-> Some(newHash), diff |-> Some(EmptyStr), error |-> None]

HashesDifferByContent(newEntry, oldEntry) == newEntry.content # oldEntry.content

\* newHash !== oldHash
HashesDiffer(newEntry, oldEntry) == newEntry.hash # oldEntry.hash

compareContent(newEntry, oldEntry, url, name, changes) ==
    IF NoOldHash(oldEntry) THEN FirstRunResult(url, name, newEntry.hash)
    ELSE
        LET changed == HashesDiffer(newEntry, oldEntry[1])
        IN  [url |-> url, name |-> name, changed |-> changed, isFirstRun |-> FALSE,
             oldHash |-> Some(oldEntry[1].hash), newHash |-> Some(newEntry.hash),
             diff |-> Some(IF changed THEN generateDiff(changes) ELSE EmptyStr),
             error |-> None]

(***************************************************************************)
(* notifier: channel resolution and delivery.  A Notifier is a named       *)
(* reference (typeof notifier === "string") or an inline channel.          *)
(***************************************************************************)
NameRef(n) == [kind |-> "name", name |-> n]

Inline(c) == [kind |-> "inline", channel |-> c]

Ok(v) == [ok |-> TRUE, value |-> v]

Throw(e) == [ok |-> FALSE, error |-> e]

\* config.channels?.[name]; an unknown name throws
getChannelByName(name, cfg) ==
    IF cfg.channels # None /\ name \in DOMAIN cfg.channels[1]
    THEN Ok(cfg.channels[1][name])
    ELSE Throw("Unknown notification channel")

RECURSIVE MapNotifiersSkipUnknown(_, _)
MapNotifiersSkipUnknown(notifiers, cfg) ==
    IF Len(notifiers) = 0 THEN Ok(<<>>)
    ELSE
        LET head == IF notifiers[1].kind = "name"
                    THEN getChannelByName(notifiers[1].name, cfg)
                    ELSE Ok(notifiers[1].channel)
            rest == MapNotifiersSkipUnknown(Tail(notifiers), cfg)
        IN  IF ~head.ok THEN rest
            ELSE Ok(<<head.value>> \o rest.value)

\* website.notifiers.map(...): the first unknown name throws out of the map
RECURSIVE MapNotifiers(_, _)
MapNotifiers(notifiers, cfg) ==
    IF Len(notifiers) = 0 THEN Ok(<<>>)
    ELSE
        LET head == IF notifiers[1].kind = "name"
                    THEN getChannelByName(notifiers[1].name, cfg)
                    ELSE Ok(notifiers[1].channel)
            rest == MapNotifiers(Tail(notifiers), cfg)
        IN  IF ~head.ok THEN head
            ELSE IF ~rest.ok THEN rest
            ELSE Ok(<<head.value>> \o rest.value)

\* !website.notifiers || website.notifiers.length === 0
NoNotifiers(w) == w.notifiers = None \/ Len(w.notifiers[1]) = 0

\* !defaultChannel: undefined and "" are falsy
NoDefaultChannel(cfg) ==
    cfg.settings.default_channel = None \/ cfg.settings.default_channel[1] = ""

resolveNotifiersDefaultFirst(w, cfg) ==
    IF ~NoDefaultChannel(cfg)
    THEN LET ch == getChannelByName(cfg.settings.default_channel[1], cfg)
         IN  IF ch.ok THEN Ok(<<ch.value>>) ELSE ch
    ELSE IF NoNotifiers(w) THEN Ok(<<>>)
    ELSE MapNotifiers(w.notifiers[1], cfg)

resolveNotifiers(w, cfg) ==
    IF NoNotifiers(w)
    THEN IF NoDefaultChannel(cfg) THEN Ok(<<>>)
         ELSE LET ch == getChannelByName(cfg.settings.default_channel[1], cfg)
              IN  IF ch.ok THEN Ok(<<ch.value>>) ELSE ch
    ELSE MapNotifiers(w.notifiers[1], cfg)

\* The number of rejected promises among the settled deliveries
RECURSIVE CountFailures(_)
CountFailures(delivered) ==
    IF Len(delivered) = 0 THEN 0
    ELSE (IF delivered[1] THEN 0 ELSE 1) + CountFailures(Tail(delivered))

sendToAllChannelsThrowOnEmpty(channels, delivered) ==
    LET failures == CountFailures(SubSeq(delivered, 1, Len(channels)))
    IN  [threw |-> failures = Len(channels), attempts |-> Len(channels),
         failures |-> failures]

sendToAllChannelsThrowOnAny(channels, delivered) ==
    IF Len(channels) = 0 THEN [threw |-> FALSE, attempts |-> 0, failures |-> 0]
    ELSE
        LET failures == CountFailures(SubSeq(delivered, 1, Len(channels)))
        IN  [threw |-> failures > 0, attempts |-> Len(channels), failures |-> failures]

\* delivered[i] tells whether sendToChannel(channels[i]) fulfilled.  Every
\* channel of a non-empty list is attempted; the call throws only when all
\* of them were rejected.
sendToAllChannels(channels, delivered) ==
    IF Len(channels) = 0 THEN [threw |-> FALSE, attempts |-> 0, failures |-> 0]
    ELSE
        LET failures == CountFailures(SubSeq(delivered, 1, Len(channels)))
        IN  [threw |-> failures = Len(channels) /\ failures > 0,
             attempts |-> Len(channels), failures |-> failures]

(***************************************************************************)
(* notifier: error-notification throttling.                                *)
(***************************************************************************)
\* Math.ceil(x / 60000)
CeilMinutes(x) == 0 - ((0 - x) \div 60000)

shouldSendErrorNotificationStrict(errorCount, lastNotificationTime, cfg, dateNow) ==
    LET threshold == cfg.settings.error_notification_threshold
        cooldown == cfg.settings.error_notification_cooldown_ms
        timeSinceLastNotification == dateNow - lastNotificationTime
        shouldNotify == errorCount > threshold /\ timeSinceLastNotification >= cooldown
    IN  [shouldNotify |-> shouldNotify, reason |-> None]

\* dateNow is the value of Date.now() at the call
shouldSendErrorNotification(errorCount, lastNotificationTime, cfg, dateNow) ==
    LET threshold == cfg.settings.error_notification_threshold
        cooldown == cfg.settings.error_notification_cooldown_ms
        timeSinceLastNotification == dateNow - lastNotificationTime
        shouldNotify == errorCount >= threshold /\ timeSinceLastNotification >= cooldown
    IN  IF ~shouldNotify
        THEN IF errorCount < threshold
             THEN [shouldNotify |-> FALSE,
                   reason |-> Some([kind |-> "error count", n |-> errorCount])]
             ELSE [shouldNotify |-> FALSE,
                   reason |-> Some([kind |-> "cooldown",
                                    n |-> CeilMinutes(cooldown - timeSinceLastNotification)])]
        ELSE [shouldNotify |-> TRUE, reason |-> None]

\* sendChangeNotification: resolve the channels, then deliver to all of them
sendChangeNotification(result, w, cfg, delivered) ==
    LET channels == resolveNotifiers(w, cfg)
    IN  IF ~channels.ok
        THEN [threw |-> TRUE, attempts |-> 0, failures |-> 0, channels |-> <<>>]
        ELSE LET sent == sendToAllChannels(channels.value, delivered)
             IN  [threw |-> sent.threw, attempts |-> sent.attempts,
                  failures |-> sent.failures, channels |-> channels.value]

sendErrorNotificationStampsThrottled(w, snapshot, cfg, delivered, checkedAt, sentAt) ==
    LET errorCount == IF snapshot = None THEN 0 ELSE snapshot[1].error_count
        lastNotificationTime ==
            IF snapshot = None \/ snapshot[1].last_error_notification_time = None
            THEN 0 ELSE snapshot[1].last_error_notification_time[1]
        decision == shouldSendErrorNotification(errorCount, lastNotificationTime, cfg, checkedAt)
        channels == resolveNotifiers(w, cfg)
        sent == sendToAllChannels(channels.value, delivered)
        quiet == [threw |-> FALSE, ret |-> None, shouldNotify |-> FALSE,
                  attempts |-> 0, failures |-> 0]
        stamped == IF snapshot # None
                   THEN Some([snapshot[1] EXCEPT !.last_error_notification_time = Some(sentAt)])
                   ELSE None
    IN  IF ~decision.shouldNotify THEN [quiet EXCEPT !.ret = stamped]
        ELSE IF ~channels.ok THEN [quiet EXCEPT !.threw = TRUE, !.shouldNotify = TRUE]
        ELSE IF sent.threw
        THEN [quiet EXCEPT !.threw = TRUE, !.shouldNotify = TRUE,
                           !.attempts = sent.attempts, !.failures = sent.failures]
        ELSE [threw |-> FALSE, ret |-> stamped,
              shouldNotify |-> TRUE, attempts |-> sent.attempts, failures |-> sent.failures]

\* sendErrorNotification(website, error, snapshot): checkedAt and sentAt are
\* Date.now() at the throttling check and after the delivery.  ret is the
\* returned Snapshot | null.
sendErrorNotification(w, snapshot, cfg, delivered, checkedAt, sentAt) ==
    LET errorCount == IF snapshot = None THEN 0 ELSE snapshot[1].error_count
        lastNotificationTime ==
            IF snapshot = None \/ snapshot[1].last_error_notification_time = None
            THEN 0 ELSE snapshot[1].last_error_notification_time[1]
        decision == shouldSendErrorNotification(errorCount, lastNotificationTime, cfg, checkedAt)
        channels == resolveNotifiers(w, cfg)
        sent == sendToAllChannels(channels.value, delivered)
        quiet == [threw |-> FALSE, ret |-> None, shouldNotify |-> FALSE,
                  attempts |-> 0, failures |-> 0]
    IN  IF ~decision.shouldNotify THEN quiet
        ELSE IF ~channels.ok THEN [quiet EXCEPT !.threw = TRUE, !.shouldNotify = TRUE]
        ELSE IF sent.threw
        THEN [quiet EXCEPT !.threw = TRUE, !.shouldNotify = TRUE,
                           !.attempts = sent.attempts, !.failures = sent.failures]
        ELSE [threw |-> FALSE,
              ret |-> IF snapshot # None
                      THEN Some([snapshot[1] EXCEPT !.last_error_notification_time = Some(sentAt)])
                      ELSE None,
              shouldNotify |-> TRUE, attempts |-> sent.attempts, failures |-> sent.failures]

(***************************************************************************)
(* The configuration and the environment of the orchestrator.              *)
(***************************************************************************)
error_notification_threshold == 3

error_notification_cooldown_ms == 3600000

\* The granularity of the clock, and the time of the first run
TimeStep == 3600000

StartTime == 36000000

\* The clock stops advancing MaxTicks steps after StartTime
MaxTicks == 1

MaxChangeCount == 1

MaxErrorCount == 4

NtfyMain == [type |-> "ntfy", topic |-> "alerts", server |-> "https://ntfy.sh"]

HookInline == [type |-> "webhook", url |-> "https://hooks.example/notify", method |-> "POST"]

Settings(defaultChannel) ==
    [error_notification_threshold |-> error_notification_threshold,
     error_notification_cooldown_ms |-> error_notification_cooldown_ms,
     default_channel |-> defaultChannel]

Registry == [main |-> NtfyMain]

ConfigWith(defaultChannel) ==
    [settings |-> Settings(defaultChannel), channels |-> Some(Registry)]

Site(notifiers, notifyOnFirstRun) ==
    [name |-> "site", url |-> "https://example.com", selector |-> None, enabled |-> TRUE,
     priority |-> "high", notifyOnFirstRun |-> notifyOnFirstRun, notifiers |-> notifiers]

\* The configurations of the runs: a website without notifiers, with and
\* without a default channel, a website with an inline and a named notifier,
\* and a website that names a channel the registry does not define
Setups ==
    {[website |-> Site(None, None), config |-> ConfigWith(None)],
     [website |-> Site(None, None), config |-> ConfigWith(Some("main"))],
     [website |-> Site(Some(<<Inline(HookInline), NameRef("main")>>), Some(FALSE)),
      config |-> ConfigWith(None)],
     [website |-> Site(Some(<<Inline(HookInline), NameRef("missing")>>), None),
      config |-> ConfigWith(None)]}

Contents == {<<"a">>, <<"b">>}

\* A FetchResult of fetchWithRetry: fetched content, or the terminal error
FetchResults ==
    {[content |-> c, status |-> 200, error |-> None] : c \in Contents}
        \cup {[content |-> EmptyStr, status |-> 0, error |-> Some("fetch failed")]}

\* The outcomes of the deliveries to n channels, by position
Deliveries(n) == [1..n -> BOOLEAN]

\* calculateHash: a digest is never empty and differs for different contents
calculateHash(content) == <<"#">> \o content

\* formatTimestamp(new Date(t)): the ISO string of the instant t
formatTimestamp(t) == [iso |-> t]

\* diffLines(oldContent, newContent) for two one-line contents
diffLines(oldContent, newContent) ==
    IF oldContent = newContent
    THEN <<[added |-> FALSE, removed |-> FALSE, value |-> oldContent]>>
    ELSE <<[added |-> FALSE, removed |-> TRUE, value |-> oldContent],
           [added |-> TRUE, removed |-> FALSE, value |-> newContent]>>

(***************************************************************************)
(* index: monitorWebsite and the per-website task of main.                 *)
(***************************************************************************)
NoDispatch == [called |-> FALSE, threw |-> FALSE, attempts |-> 0, failures |-> 0]

ChangeCountAlwaysBumped(result, existing) ==
    (IF existing = None THEN 0 ELSE existing[1].change_count) + 1

\* result.changed ? (existing?.change_count ?? 0) + 1 : (existing?.change_count ?? 0)
NextChangeCount(result, existing) ==
    IF result.changed
    THEN (IF existing = None THEN 0 ELSE existing[1].change_count) + 1
    ELSE (IF existing = None THEN 0 ELSE existing[1].change_count)

\* error_count: existing?.error_count ?? 0
CarriedErrorCount(existing) == IF existing = None THEN 0 ELSE existing[1].error_count

SuccessSnapshotKeepPrevious(w, newEntry, existing, result, t) ==
    [url |-> w.url, name |-> w.name, current |-> newEntry,
     previous |-> IF existing = None THEN None ELSE existing[1].previous,
     last_check |-> formatTimestamp(t),
     change_count |-> NextChangeCount(result, existing),
     error_count |-> CarriedErrorCount(existing),
     enabled |-> w.enabled, selector |-> w.selector,
     last_error_notification_time |-> None]

\* The Snapshot monitorWebsite saves when the content changed or on first run
SuccessSnapshot(w, newEntry, existing, result, t) ==
    [url |-> w.url, name |-> w.name, current |-> newEntry,
     previous |-> IF existing = None THEN None ELSE Some(existing[1].current),
     last_check |-> formatTimestamp(t),
     change_count |-> NextChangeCount(result, existing),
     error_count |-> CarriedErrorCount(existing),
     enabled |-> w.enabled, selector |-> w.selector,
     last_error_notification_time |-> None]

ShouldNotifyChangeOnEveryFirstRun(result, w) == result.isFirstRun \/ result.changed

\* (result.isFirstRun && website.notifyOnFirstRun !== false) || result.changed
ShouldNotifyChange(result, w) ==
    (result.isFirstRun /\ w.notifyOnFirstRun # Some(FALSE)) \/ result.changed

MonitorComparedNotifyThrows(w, cfg, existing, newEntry, result, t, saveOk, delivered) ==
    LET base == [threw |-> FALSE, result |-> None, store |-> existing, saved |-> FALSE,
                 saveThrew |-> FALSE, change |-> NoDispatch]
    IN  IF ~(result.changed \/ result.isFirstRun)
        THEN [base EXCEPT !.result = Some(result)]
        ELSE IF ~saveOk THEN [base EXCEPT !.threw = TRUE, !.saveThrew = TRUE]
        ELSE The({[base EXCEPT
                     !.threw = sent.called /\ sent.threw,
                     !.result = IF sent.called /\ sent.threw THEN None ELSE Some(result),
                     !.store = Some(SuccessSnapshot(w, newEntry, existing, result, t)),
                     !.saved = TRUE,
                     !.change = sent] :
                  sent \in {IF ShouldNotifyChange(result, w)
                            THEN The({[called |-> TRUE, threw |-> s.threw,
                                       attempts |-> s.attempts, failures |-> s.failures] :
                                      s \in {sendChangeNotification(result, w, cfg, delivered)}})
                            ELSE NoDispatch}})

MonitorComparedSwallowSave(w, cfg, existing, newEntry, result, t, saveOk, delivered) ==
    LET base == [threw |-> FALSE, result |-> None, store |-> existing, saved |-> FALSE,
                 saveThrew |-> FALSE, change |-> NoDispatch]
    IN  IF ~(result.changed \/ result.isFirstRun)
        THEN [base EXCEPT !.result = Some(result)]
        ELSE [base EXCEPT
                !.result = Some(result),
                !.store = IF saveOk
                          THEN Some(SuccessSnapshot(w, newEntry, existing, result, t))
                          ELSE existing,
                !.saved = saveOk,
                !.saveThrew = ~saveOk,
                !.change = IF ShouldNotifyChange(result, w)
                           THEN The({[called |-> TRUE, threw |-> sent.threw,
                                      attempts |-> sent.attempts,
                                      failures |-> sent.failures] :
                                     sent \in {sendChangeNotification(result, w, cfg, delivered)}})
                           ELSE NoDispatch]

\* monitorWebsite after compareContent: the save, then the notification
MonitorCompared(w, cfg, existing, newEntry, result, t, saveOk, delivered) ==
    LET base == [threw |-> FALSE, result |-> None, store |-> existing, saved |-> FALSE,
                 saveThrew |-> FALSE, change |-> NoDispatch]
    IN  IF ~(result.changed \/ result.isFirstRun)
        THEN [base EXCEPT !.result = Some(result)]
        ELSE IF ~saveOk THEN [base EXCEPT !.threw = TRUE, !.saveThrew = TRUE]
        ELSE [base EXCEPT
                !.result = Some(result),
                !.store = Some(SuccessSnapshot(w, newEntry, existing, result, t)),
                !.saved = TRUE,
                !.change = IF ShouldNotifyChange(result, w)
                           THEN The({[called |-> TRUE, threw |-> sent.threw,
                                      attempts |-> sent.attempts,
                                      failures |-> sent.failures] :
                                     sent \in {sendChangeNotification(result, w, cfg, delivered)}})
                           ELSE NoDispatch]

\* monitorWebsite(website): existing is what loadSnapshot returns, saveOk
\* whether saveSnapshot succeeds.  threw tells that the call raised (the fetch
\* error, or the I/O error of saveSnapshot); store is the store afterwards.
monitorWebsite(w, cfg, existing, fetchResult, t, saveOk, delivered) ==
    LET newEntry == [timestamp |-> formatTimestamp(t), content |-> fetchResult.content,
                     status |-> fetchResult.status,
                     hash |-> calculateHash(fetchResult.content)]
        oldEntry == IF existing = None THEN None ELSE Some(existing[1].current)
    IN  IF fetchResult.error # None
        THEN [threw |-> TRUE, result |-> None, store |-> existing, saved |-> FALSE,
              saveThrew |-> FALSE, change |-> NoDispatch]
        ELSE The({MonitorCompared(w, cfg, existing, newEntry, result, t, saveOk, delivered) :
                  result \in {compareContent(newEntry, oldEntry, w.url, w.name,
                                             IF oldEntry = None THEN <<>>
                                             ELSE diffLines(oldEntry[1].content,
                                                            newEntry.content))}})

ErrorSnapshotFresh(w, existingSnapshot, t) ==
    [url |-> w.url, name |-> w.name,
     current |-> [timestamp |-> formatTimestamp(t), content |-> EmptyStr,
                  hash |-> EmptyStr, status |-> 0],
     previous |-> None, last_check |-> formatTimestamp(t), change_count |-> 0,
     error_count |-> IF existingSnapshot = None THEN 1 ELSE existingSnapshot[1].error_count + 1,
     enabled |-> w.enabled, selector |-> w.selector,
     last_error_notification_time |-> None]

ErrorSnapshotPlaceholderCurrent(w, existingSnapshot, t) ==
    [url |-> w.url, name |-> w.name,
     current |-> [timestamp |-> formatTimestamp(t), content |-> EmptyStr,
                  hash |-> EmptyStr, status |-> 0],
     previous |-> IF existingSnapshot = None THEN None ELSE existingSnapshot[1].previous,
     last_check |-> formatTimestamp(t),
     change_count |-> IF existingSnapshot = None THEN 0 ELSE existingSnapshot[1].change_count,
     error_count |-> IF existingSnapshot = None THEN 1 ELSE existingSnapshot[1].error_count + 1,
     enabled |-> w.enabled, selector |-> w.selector,
     last_error_notification_time |->
         IF existingSnapshot = None THEN None
         ELSE existingSnapshot[1].last_error_notification_time]

\* The snapshot main's catch block builds: the existing one with error_count
\* incremented, or a placeholder with error_count 1
ErrorSnapshot(w, existingSnapshot, t) ==
    IF existingSnapshot # None
    THEN [existingSnapshot[1] EXCEPT !.error_count = existingSnapshot[1].error_count + 1]
    ELSE [url |-> w.url, name |-> w.name,
          current |-> [timestamp |-> formatTimestamp(t), content |-> EmptyStr,
                       hash |-> EmptyStr, status |-> 0],
          previous |-> None, last_check |-> formatTimestamp(t), change_count |-> 0,
          error_count |-> 1, enabled |-> w.enabled, selector |-> w.selector,
          last_error_notification_time |-> None]

\* The ChangeResult main records for a failed website
ErrorResult(w) ==
    [url |-> w.url, name |-> w.name, changed |-> FALSE, isFirstRun |-> FALSE,
     oldHash |-> None, newHash |-> None, diff |-> None, error |-> Some("fetch failed")]

NoErrorDispatch ==
    [called |-> FALSE, threw |-> FALSE, shouldNotify |-> FALSE, attempts |-> 0,
     failures |-> 0, checkedAt |-> 0, ret |-> None, updateThrew |-> FALSE,
     recorded |-> None]

\* What the store held before a run, as far as the counters go
Before(st) ==
    IF st = None
    THEN [present |-> FALSE, change_count |-> 0, error_count |-> 0, snapshot |-> None]
    ELSE [present |-> TRUE, change_count |-> st[1].change_count,
          error_count |-> st[1].error_count, snapshot |-> st]

NoRun ==
    [kind |-> "none", fetchOk |-> FALSE, result |-> None, saved |-> FALSE,
     saveThrew |-> FALSE, change |-> NoDispatch, errorN |-> NoErrorDispatch,
     before |-> Before(None)]

CatchNotifiedKeepsErrorSnapshot(run, snapshot, e, t, updateOk) ==
    [store |-> Some(snapshot),
     run |-> [run EXCEPT
                !.kind = "failed",
                !.errorN = [called |-> TRUE, threw |-> e.threw,
                            shouldNotify |-> e.shouldNotify, attempts |-> e.attempts,
                            failures |-> e.failures, checkedAt |-> t,
                            ret |-> e.ret, updateThrew |-> FALSE,
                            recorded |-> None]]]

\* The catch block of main's task after the error snapshot was saved: the
\* throttled error notification in its own try block, and the save of the
\* updated snapshot it returns.  e.ret is persisted when the call returned a
\* snapshot and saveSnapshot succeeded (updateOk).
CatchNotified(run, snapshot, e, t, updateOk) ==
    LET persisted == ~e.threw /\ e.ret # None /\ updateOk
    IN  [store |-> IF persisted THEN e.ret ELSE Some(snapshot),
         run |-> [run EXCEPT
                    !.kind = "failed",
                    !.saveThrew = run.saveThrew \/ (~e.threw /\ e.ret # None /\ ~updateOk),
                    !.errorN = [called |-> TRUE, threw |-> e.threw,
                                shouldNotify |-> e.shouldNotify, attempts |-> e.attempts,
                                failures |-> e.failures, checkedAt |-> t,
                                ret |-> e.ret,
                                updateThrew |-> ~e.threw /\ e.ret # None /\ ~updateOk,
                                recorded |-> IF persisted
                                             THEN e.ret[1].last_error_notification_time
                                             ELSE None]]]

\* The catch block of main's task: m is what monitorWebsite left
CatchBlock(w, cfg, m, run, t, io, delivered, sentAt) ==
    IF ~io.error
    THEN [store |-> m.store, run |-> [run EXCEPT !.kind = "rejected", !.saveThrew = TRUE]]
    ELSE The({The({CatchNotified([run EXCEPT !.result = Some(ErrorResult(w))],
                                 snapshot, e, t, io.update) :
                   e \in {sendErrorNotification(w, Some(snapshot), cfg, delivered, t, sentAt)}}) :
              snapshot \in {ErrorSnapshot(w, m.store, t)}})

\* The task main runs for one enabled website: monitorWebsite in a try block
\* and, in its catch block, the error snapshot and the throttled error
\* notification.  io.monitor, io.error and io.update tell whether the
\* saveSnapshot of monitorWebsite, of the error snapshot and of the updated
\* snapshot succeed.  The result is the store afterwards and the record of
\* what the task did: kind is "monitored" (success: true), "failed"
\* (success: false) or "rejected" (the task's promise rejected).
MainTaskOf(w, cfg, st, m, fetchOk, t, io, delivered, sentAt) ==
    LET run == [NoRun EXCEPT !.fetchOk = fetchOk, !.saved = m.saved,
                             !.saveThrew = m.saveThrew, !.change = m.change,
                             !.before = Before(st)]
    IN  IF ~m.threw
        THEN [store |-> m.store, run |-> [run EXCEPT !.kind = "monitored", !.result = m.result]]
        ELSE CatchBlock(w, cfg, m, run, t, io, delivered, sentAt)

MainTask(w, cfg, st, fetchResult, t, io, delivered, sentAt) ==
    The({MainTaskOf(w, cfg, st, m, fetchResult.error = None, t, io, delivered, sentAt) :
         m \in {monitorWebsite(w, cfg, st, fetchResult, t, io.monitor, delivered)}})

\* The error notifications of the current run of consecutive failed fetches:
\* one entry per dispatch that attempted a delivery, with the time of the
\* throttling check and the notification time the run persisted, if any
NextBurst(b, run) ==
    IF run.fetchOk THEN <<>>
    ELSE IF run.kind = "failed" /\ run.errorN.shouldNotify /\ run.errorN.attempts > 0
    THEN Append(b, [at |-> run.errorN.checkedAt, recorded |-> run.errorN.recorded])
    ELSE b

\* The error notifications delivered to at least one channel over all the
\* runs of the resource, successful fetches in between included: the time of
\* the throttling check and the notification time the run persisted, if any
NextAlerts(a, run) ==
    IF run.kind = "failed" /\ run.errorN.shouldNotify
       /\ run.errorN.attempts > run.errorN.failures
    THEN Append(a, [at |-> run.errorN.checkedAt, recorded |-> run.errorN.recorded])
    ELSE a

\* The outcomes of the three saveSnapshot calls of a task.  A call that is
\* not reached has no outcome: monitorWebsite saves nothing after a failed
\* fetch, and the catch block runs only when monitorWebsite raised.
SaveOutcomes == [monitor : BOOLEAN, error : BOOLEAN, update : BOOLEAN]

WithinBounds(st) ==
    IF st = None THEN TRUE
    ELSE st[1].change_count < MaxChangeCount /\ st[1].error_count < MaxErrorCount

MaxNow == StartTime + MaxTicks * TimeStep

NoCall == [fn |-> "none"]

(***************************************************************************)
(* The orchestrator over successive runs of main for one resource.         *)
(***************************************************************************)
Init ==
    /\ store = None
    /\ now = StartTime
    /\ \E setup \in Setups : website = setup.website /\ config = setup.config
    /\ lastRun = NoRun
    /\ burst = <<>>
    /\ alerts = <<>>
    /\ call = NoCall

\* One run of main, gap after the previous one: the fetch result, the
\* outcomes of the snapshot writes and of the deliveries, and the time dt the
\* deliveries took, are inputs.
RunMain(fetchResult, io, delivered, gap, dt) ==
    /\ WithinBounds(store)
    /\ now + gap + dt <= MaxNow
    /\ \E out \in {MainTask(website, config, store, fetchResult, now + gap, io, delivered,
                            now + gap + dt)} :
           /\ store' = out.store
           /\ lastRun' = out.run
           /\ burst' = NextBurst(burst, out.run)
           /\ alerts' = NextAlerts(alerts, out.run)
    /\ now' = now + gap + dt
    /\ UNCHANGED <<website, config, call>>

Gaps == {0, TimeStep}

\* The number of channels a dispatch for the website delivers to
ChannelCount ==
    LET channels == resolveNotifiers(website, config)
    IN  IF channels.ok THEN Len(channels.value) ELSE 0

\* A delivery takes time only when there is a channel to deliver to
DeliveryTimes == IF ChannelCount = 0 THEN {0} ELSE Gaps

FetchFails ==
    \E io \in {o \in SaveOutcomes : o.monitor}, delivered \in Deliveries(ChannelCount), gap \in Gaps,
       dt \in DeliveryTimes :
        \E fetchResult \in {f \in FetchResults : f.error # None} :
            RunMain(fetchResult, io, delivered, gap, dt)

FetchSucceeds ==
    \E io \in {o \in SaveOutcomes : o.monitor => (o.error /\ o.update)}, delivered \in Deliveries(ChannelCount), gap \in Gaps,
       dt \in DeliveryTimes :
        \E fetchResult \in {f \in FetchResults : f.error = None} :
            RunMain(fetchResult, io, delivered, gap, dt)

Next == FetchFails \/ FetchSucceeds

Spec == Init /\ [][Next]_vars

(***************************************************************************)
(* The pure functions, each applied to arguments drawn from bounded sets.  *)
(* call.ret is the sequence of the values returned so far.                 *)
(***************************************************************************)
Idle ==
    /\ store = None
    /\ now = StartTime
    /\ website = Site(None, None)
    /\ config = ConfigWith(None)
    /\ lastRun = NoRun
    /\ burst = <<>>
    /\ alerts = <<>>

idleVars == <<store, now, website, config, lastRun, burst, alerts>>

\* All the sequences over S of length at most n
RECURSIVE SeqsUpTo(_, _)
SeqsUpTo(S, n) ==
    IF n = 0 THEN {<<>>}
    ELSE LET shorter == SeqsUpTo(S, n - 1)
         IN  shorter \cup {Append(q, x) : q \in {r \in shorter : Len(r) = n - 1}, x \in S}

\* n times the character c
Repeat(c, n) == [i \in 1..n |-> c]

(***************************************************************************)
(* truncateText, applied once and then again to its own result.            *)
(***************************************************************************)
MaxTextLen == 4

TruncTexts == SeqsUpTo({"a", NL}, MaxTextLen)

TruncOptions ==
    [maxLength : {None, Some(0), Some(2)}, maxLines : {None, Some(0), Some(2)},
     maxTotalSize : {None, Some(0), Some(4)}]

InitTrunc ==
    /\ Idle
    /\ \E text \in TruncTexts, options \in TruncOptions :
           call = [fn |-> "truncateText", args |-> [text |-> text, options |-> options],
                   ret |-> <<>>]

TruncateOnce ==
    /\ call.fn = "truncateText"
    /\ Len(call.ret) = 0
    /\ call' = [call EXCEPT !.ret = <<truncateRun(call.args.text, call.args.options)>>]
    /\ UNCHANGED idleVars

TruncateAgain ==
    /\ call.fn = "truncateText"
    /\ Len(call.ret) = 1
    /\ call' = [call EXCEPT
                  !.ret = Append(call.ret, truncateRun(call.ret[1].result, call.args.options))]
    /\ UNCHANGED idleVars

NextTrunc == TruncateOnce \/ TruncateAgain

SpecTrunc == InitTrunc /\ [][NextTrunc]_vars

(***************************************************************************)
(* compareContent, applied to a new entry, an optional previous entry and  *)
(* the changes diffLines reports.                                          *)
(***************************************************************************)
Entry(content, hash, status) ==
    [timestamp |-> formatTimestamp(StartTime), content |-> content, hash |-> hash,
     status |-> status]

\* The entry main's catch block stores as current when no snapshot existed
PlaceholderEntry == Entry(EmptyStr, EmptyStr, 0)

FetchedEntries == {Entry(c, h, 200) : c \in Contents, h \in {calculateHash(x) : x \in Contents}}

\* A line longer than MAX_LINE_LENGTH, more lines than MAX_DIFF_LINES, a
\* line with trailing blanks, a lone newline token
ChangeValues ==
    {<<"a">>, <<"b", " ">>, <<NL>>, Repeat("a", MaxLineLength + 1),
     JoinLines([i \in 1..(MaxDiffLines + 1) |-> <<"c">>])}

Changes ==
    {[added |-> k = "added", removed |-> k = "removed", value |-> v] :
        k \in {"added", "removed", "unchanged"}, v \in ChangeValues}

MaxChanges == 2

InitDiff ==
    /\ Idle
    /\ \E newEntry \in FetchedEntries,
          oldEntry \in {None, Some(PlaceholderEntry)} \cup {Some(e) : e \in FetchedEntries},
          changes \in SeqsUpTo(Changes, MaxChanges) :
           call = [fn |-> "compareContent",
                   args |-> [newEntry |-> newEntry, oldEntry |-> oldEntry, changes |-> changes],
                   ret |-> <<>>]

Compare ==
    /\ call.fn = "compareContent"
    /\ Len(call.ret) = 0
    /\ call' = [call EXCEPT
                  !.ret = <<compareContent(call.args.newEntry, call.args.oldEntry,
                                           "https://example.com", "site", call.args.changes)>>]
    /\ UNCHANGED idleVars

SpecDiff == InitDiff /\ [][Compare]_vars

(***************************************************************************)
(* shouldSendErrorNotification, for several thresholds and cooldowns.      *)
(***************************************************************************)
TenMinutes == 600000

ThrottleArgs ==
    [errorCount : 0..(MaxErrorCount + 1),
     lastNotificationTime : {0, StartTime},
     threshold : {1, error_notification_threshold},
     cooldown : {0, error_notification_cooldown_ms},
     dateNow : {StartTime, StartTime + TenMinutes,
                StartTime + error_notification_cooldown_ms - 1,
                StartTime + error_notification_cooldown_ms}]

ThrottleConfig(threshold, cooldown) ==
    [settings |-> [error_notification_threshold |-> threshold,
                   error_notification_cooldown_ms |-> cooldown,
                   default_channel |-> None],
     channels |-> None]

InitThrottle ==
    /\ Idle
    /\ \E args \in ThrottleArgs :
           call = [fn |-> "shouldSendErrorNotification", args |-> args, ret |-> <<>>]

Throttle ==
    /\ call.fn = "shouldSendErrorNotification"
    /\ Len(call.ret) = 0
    /\ call' = [call EXCEPT
                  !.ret = <<shouldSendErrorNotification(
                                call.args.errorCount, call.args.lastNotificationTime,
                                ThrottleConfig(call.args.threshold, call.args.cooldown),
                                call.args.dateNow)>>]
    /\ UNCHANGED idleVars

SpecThrottle == InitThrottle /\ [][Throttle]_vars

(***************************************************************************)
(* resolveNotifiers, for websites and configurations with known and        *)
(* unknown channel names.                                                  *)
(***************************************************************************)
HookOps == [type |-> "webhook", url |-> "https://hooks.example/ops", method |-> "POST"]

Registry2 == [main |-> NtfyMain, ops |-> HookOps]

NotifierChoices == {NameRef("main"), NameRef("ops"), NameRef("missing"), Inline(HookInline)}

MaxNotifiers == 2

ResolveWebsites ==
    {Site(n, None) : n \in {None} \cup {Some(q) : q \in SeqsUpTo(NotifierChoices, MaxNotifiers)}}

ResolveConfigs ==
    {[settings |-> Settings(d), channels |-> c] :
        d \in {None, Some(""), Some("main"), Some("ops"), Some("missing")},
        c \in {None, Some(Registry2)}}

InitResolve ==
    /\ Idle
    /\ \E w \in ResolveWebsites, cfg \in ResolveConfigs :
           call = [fn |-> "resolveNotifiers", args |-> [website |-> w, config |-> cfg],
                   ret |-> <<>>]

Resolve ==
    /\ call.fn = "resolveNotifiers"
    /\ Len(call.ret) = 0
    /\ call' = [call EXCEPT
                  !.ret = <<resolveNotifiers(call.args.website, call.args.config)>>]
    /\ UNCHANGED idleVars

SpecResolve == InitResolve /\ [][Resolve]_vars

(***************************************************************************)
(* Properties of the orchestrator, checked under Spec.  lastRun is the     *)
(* record of the task that ended last, lastRun.before the counters the     *)
(* store held when it began.                                               *)
(***************************************************************************)
\* The last task fetched the page, found its hash changed and saved the snapshot
RunChanged ==
    /\ lastRun.kind = "monitored"
    /\ lastRun.result # None
    /\ lastRun.result[1].changed

C2_ErrorCountReset ==
    /\ (lastRun.kind = "failed" /\ ~lastRun.fetchOk) =>
           Before(store).error_count = lastRun.before.error_count + 1
    /\ lastRun.kind = "monitored" => Before(store).error_count = 0

\* C4 as stated: within a maximal sequence of consecutive failed fetches at
\* most one error notification is dispatched.
C4_AtMostOncePerBurst == Len(burst) <= 1

\* C4: within a maximal sequence of consecutive failed fetches, once an error
\* notification was dispatched and its time recorded in the snapshot, no
\* other one is dispatched before error_notification_cooldown_ms has elapsed
\* since the recorded time.
C4_CooldownWithinBurst ==
    \A i, j \in 1..Len(burst) :
        (i < j /\ burst[i].recorded # None) =>
            burst[j].at - burst[i].recorded[1] >= error_notification_cooldown_ms

C4_Witness ==
    /\ Len(burst) = 2
    /\ burst[1].recorded # None
    /\ burst[2].at - burst[1].recorded[1] >= error_notification_cooldown_ms

\* C10: for a website without notifiers under a configuration without default
\* channel, a change dispatch and an error dispatch attempt no delivery and
\* raise no error.
C10_NoChannelsNoDelivery ==
    (NoNotifiers(website) /\ NoDefaultChannel(config)) =>
        /\ lastRun.change.called =>
               (lastRun.change.attempts = 0 /\ ~lastRun.change.threw)
        /\ (lastRun.errorN.called /\ lastRun.errorN.shouldNotify) =>
               (lastRun.errorN.attempts = 0 /\ ~lastRun.errorN.threw)

C10_Witness ==
    /\ NoNotifiers(website)
    /\ NoDefaultChannel(config)
    /\ lastRun.errorN.called
    /\ lastRun.errorN.shouldNotify
    /\ lastRun.errorN.attempts = 0
    /\ ~lastRun.errorN.threw

(***************************************************************************)
(* Properties of shouldSendErrorNotification, checked under SpecThrottle.  *)
(***************************************************************************)
ThrottleDone == call.fn = "shouldSendErrorNotification" /\ Len(call.ret) = 1

\* C3: shouldSendErrorNotification answers shouldNotify = true exactly when
\* errorCount >= threshold and now - lastNotificationTime >= cooldown.  With
\* threshold 3 and cooldown 3600000: a count of 2 never notifies, a count of 3
\* with lastNotificationTime 0 notifies, a count of 5 ten minutes after the
\* last notification does not.
C3_ThrottleRule ==
    ThrottleDone =>
        LET a == call.args
            defaults == a.threshold = 3 /\ a.cooldown = 3600000
        IN  /\ call.ret[1].shouldNotify <=>
                   (a.errorCount >= a.threshold
                    /\ a.dateNow - a.lastNotificationTime >= a.cooldown)
            /\ (defaults /\ a.errorCount = 2) => ~call.ret[1].shouldNotify
            /\ (defaults /\ a.errorCount = 3 /\ a.lastNotificationTime = 0) =>
                   call.ret[1].shouldNotify
            /\ (defaults /\ a.errorCount = 5
                /\ a.dateNow - a.lastNotificationTime = TenMinutes) =>
                   ~call.ret[1].shouldNotify

C3_Witness ==
    /\ ThrottleDone
    /\ call.args.threshold = 3
    /\ call.args.cooldown = 3600000
    /\ call.args.errorCount = 3
    /\ call.args.lastNotificationTime = 0
    /\ call.ret[1].shouldNotify

(***************************************************************************)
(* Properties of compareContent, checked under SpecDiff.                   *)
(***************************************************************************)
CompareDone == call.fn = "compareContent" /\ Len(call.ret) = 1

\* C5: without a previous entry compareContent returns isFirstRun = true,
\* changed = false and an empty diff, whatever the new entry.
C5_FirstRun ==
    (CompareDone /\ call.args.oldEntry = None) =>
        /\ call.ret[1].isFirstRun
        /\ ~call.ret[1].changed
        /\ call.ret[1].diff = Some(EmptyStr)

C5_Witness ==
    /\ CompareDone
    /\ call.args.oldEntry = None
    /\ call.ret[1].isFirstRun
    /\ call.ret[1].newHash = Some(call.args.newEntry.hash)

\* With a previous entry: not a first run, changed exactly when the hashes
\* differ, and an empty diff when they are equal
ComparedByHash ==
    /\ ~call.ret[1].isFirstRun
    /\ call.ret[1].changed <=> (call.args.newEntry.hash # call.args.oldEntry[1].hash)
    /\ call.args.newEntry.hash = call.args.oldEntry[1].hash =>
           (~call.ret[1].changed /\ call.ret[1].diff = Some(EmptyStr))

\* C6 as stated: whenever a previous entry is present, the placeholder entry
\* of a failed fetch included, isFirstRun is false and changed is true exactly
\* when the hashes differ; equal hashes give changed = false and an empty diff.
C6_AnyPreviousEntry == (CompareDone /\ call.args.oldEntry # None) => ComparedByHash

\* C6: whenever a previous entry with a non-empty hash is present, isFirstRun
\* is false and changed is true exactly when the hashes differ; equal hashes
\* give changed = false and an empty diff.  The placeholder entry of a
\* failed fetch, whose hash is empty, counts as no previous entry:
\* isFirstRun = true, changed = false and the diff is empty.
C6_PreviousWithHash ==
    (CompareDone /\ call.args.oldEntry # None) =>
        IF call.args.oldEntry[1].hash # EmptyStr
        THEN ComparedByHash
        ELSE /\ call.ret[1].isFirstRun
             /\ ~call.ret[1].changed
             /\ call.ret[1].diff = Some(EmptyStr)

C6_Witness ==
    /\ CompareDone
    /\ call.args.oldEntry # None
    /\ call.args.oldEntry[1].hash # EmptyStr
    /\ call.args.oldEntry[1].hash = call.args.newEntry.hash
    /\ call.args.oldEntry[1].content # call.args.newEntry.content
    /\ ~call.ret[1].isFirstRun
    /\ ~call.ret[1].changed

\* The lines of a diff: an empty diff has none
LinesOfDiff(diff) == IF diff = EmptyStr THEN <<>> ELSE SplitLines(diff)

\* line starts with "+" or with "-"
SignPrefixed(line) == Len(line) > 0 /\ line[1] \in {"+", "-"}

\* The counts a truncation marker of a diff can state
MarkerCounts ==
    (0 - MaxDiffSize)..(MaxChanges * (MaxDiffLines + 1) * (MaxLineLength + 4))

\* line is "... and N more lines" or "... (truncated, M more characters)"
IsMarker(line) ==
    \E n \in MarkerCounts :
        \/ <<NL>> \o line = MoreLinesMarker(n)
        \/ <<NL>> \o line = MoreCharsMarker(n)

\* A previous entry with a hash is present and the new hash differs
HashChanged ==
    /\ CompareDone
    /\ call.args.oldEntry # None
    /\ call.args.oldEntry[1].hash # EmptyStr
    /\ call.args.oldEntry[1].hash # call.args.newEntry.hash

TruncatedTwice == call.fn = "truncateText" /\ Len(call.ret) = 2

\* C8 as stated: truncateText(truncateText(t, limits), limits) equals
\* truncateText(t, limits) for every text and every limits.
C8_Idempotent == TruncatedTwice => call.ret[2].result = call.ret[1].result

\* C8: truncateText(truncateText(t, limits), limits) equals
\* truncateText(t, limits) whenever the first application emitted every line,
\* that is dropped no line beyond maxLines and did not cut at maxTotalSize;
\* this includes the applications that trimmed long lines.
C8_IdempotentWithoutCut ==
    (TruncatedTwice /\ call.ret[1].cut = "none") =>
        /\ call.ret[2].result = call.ret[1].result
        /\ call.ret[2].cut = "none"

C8_Witness ==
    /\ TruncatedTwice
    /\ call.ret[1].cut = "none"
    /\ call.args.options.maxLength # None
    /\ \E i \in 1..Len(SplitLines(call.args.text)) :
           Len(SplitLines(call.args.text)[i]) > call.args.options.maxLength[1]
    /\ call.ret[1].result # call.args.text
    /\ call.ret[2].result = call.ret[1].result

(***************************************************************************)
(* Properties of resolveNotifiers, checked under SpecResolve.              *)
(***************************************************************************)
ResolveDone == call.fn = "resolveNotifiers" /\ Len(call.ret) = 1

\* The notifier names a channel of the registry, or is an inline channel
Resolvable(n, cfg) ==
    IF n.kind = "inline" THEN TRUE
    ELSE cfg.channels # None /\ n.name \in DOMAIN cfg.channels[1]

\* The channel a resolvable notifier stands for
ChannelOf(n, cfg) == IF n.kind = "inline" THEN n.channel ELSE cfg.channels[1][n.name]

\* C9: for a website with a non-empty notifier list whose names are all
\* defined, resolveNotifiers returns one channel per notifier, in the
\* website's order (inline channels as given, names looked up), whatever the
\* default channel; for a website without notifiers it returns the one
\* default channel when a defined default is configured and the empty list
\* when there is no default.
C9_ResolveOrder ==
    ResolveDone =>
        LET w == call.args.website
            cfg == call.args.config
            d == cfg.settings.default_channel
            r == call.ret[1]
        IN  IF w.notifiers # None /\ Len(w.notifiers[1]) > 0
            THEN (\A i \in 1..Len(w.notifiers[1]) : Resolvable(w.notifiers[1][i], cfg)) =>
                     /\ r.ok
                     /\ Len(r.value) = Len(w.notifiers[1])
                     /\ \A i \in 1..Len(w.notifiers[1]) :
                            r.value[i] = ChannelOf(w.notifiers[1][i], cfg)
            ELSE IF d = None \/ d = Some("")
            THEN r.ok /\ r.value = <<>>
            ELSE Resolvable(NameRef(d[1]), cfg) =>
                     (r.ok /\ r.value = <<cfg.channels[1][d[1]]>>)

C9_Witness ==
    /\ ResolveDone
    /\ call.args.website.notifiers = Some(<<Inline(HookInline), NameRef("main")>>)
    /\ call.args.config.settings.default_channel = Some("ops")
    /\ call.ret[1].ok
    /\ call.ret[1].value = <<HookInline, NtfyMain>>

(***************************************************************************)
(* sendChangeNotification and sendErrorNotification, applied to websites   *)
(* and configurations with known and unknown channel names.  The error     *)
(* notification is given a snapshot below or at the threshold.             *)
(***************************************************************************)
SendArgs ==
    [event : {"change", "error"},
     website : ResolveWebsites,
     config : ResolveConfigs,
     errorCount : {error_notification_threshold - 1, error_notification_threshold},
     delivered : Deliveries(MaxNotifiers)]

InitSend ==
    /\ Idle
    /\ \E args \in SendArgs : call = [fn |-> "send", args |-> args, ret |-> <<>>]

\* The snapshot main hands to sendErrorNotification after errorCount failures
FailedSnapshot(w, errorCount) ==
    [ErrorSnapshot(w, None, StartTime) EXCEPT !.error_count = errorCount]

SendChange ==
    /\ call.fn = "send"
    /\ call.args.event = "change"
    /\ Len(call.ret) = 0
    /\ \E sent \in {sendChangeNotification(
                        FirstRunResult(call.args.website.url, call.args.website.name,
                                       calculateHash(<<"a">>)),
                        call.args.website, call.args.config, call.args.delivered)} :
           call' = [call EXCEPT !.ret = <<[threw |-> sent.threw, attempts |-> sent.attempts,
                                           failures |-> sent.failures,
                                           shouldNotify |-> TRUE]>>]
    /\ UNCHANGED idleVars

SendError ==
    /\ call.fn = "send"
    /\ call.args.event = "error"
    /\ Len(call.ret) = 0
    /\ \E sent \in {sendErrorNotification(
                        call.args.website,
                        Some(FailedSnapshot(call.args.website, call.args.errorCount)),
                        call.args.config, call.args.delivered, StartTime, StartTime)} :
           call' = [call EXCEPT !.ret = <<[threw |-> sent.threw, attempts |-> sent.attempts,
                                           failures |-> sent.failures,
                                           shouldNotify |-> sent.shouldNotify]>>]
    /\ UNCHANGED idleVars

NextSend == SendChange \/ SendError

SpecSend == InitSend /\ [][NextSend]_vars

SendDone == call.fn = "send" /\ Len(call.ret) = 1

\* The website names a channel the registry does not define: one of its
\* notifiers or, when it has none, the default channel
ReferencesUndefined(w, cfg) ==
    IF w.notifiers # None /\ Len(w.notifiers[1]) > 0
    THEN \E i \in 1..Len(w.notifiers[1]) : ~Resolvable(w.notifiers[1][i], cfg)
    ELSE IF cfg.settings.default_channel = None \/ cfg.settings.default_channel = Some("")
    THEN FALSE
    ELSE ~Resolvable(NameRef(cfg.settings.default_channel[1]), cfg)

\* C11: a dispatch (change notification, or error notification that the
\* throttle lets through) for a website that names an undefined channel, at
\* any position of its notifiers or as the default channel, raises the
\* configuration error and attempts no delivery, not even to the valid
\* channels listed before the unknown one.
C11_UnknownChannelFailsFast ==
    (SendDone /\ call.ret[1].shouldNotify
     /\ ReferencesUndefined(call.args.website, call.args.config)) =>
        (call.ret[1].threw /\ call.ret[1].attempts = 0)

C11_Witness ==
    /\ SendDone
    /\ call.args.event = "change"
    /\ call.args.website.notifiers = Some(<<Inline(HookInline), NameRef("missing")>>)
    /\ call.args.config.channels # None
    /\ call.ret[1].threw
    /\ call.ret[1].attempts = 0

(***************************************************************************)
(* sendToAllChannels as a process: channels.map(sendToChannel) starts one  *)
(* delivery per channel, the deliveries settle in any order, and           *)
(* Promise.allSettled lets the call go on when all of them have settled.   *)
(* outcomes[i] is what the delivery to channels[i] ends in: the request    *)
(* succeeds, the server answers with an error status, or the transport     *)
(* fails.                                                                  *)
(***************************************************************************)
MaxChannels == 3

DeliveryOutcomes == {"ok", "http_error", "transport_error"}

DispatchArgs ==
    UNION {[channels : {c \in SeqsUpTo({NtfyMain, HookInline}, MaxChannels) : Len(c) = n},
            outcomes : [1..n -> DeliveryOutcomes]] : n \in 0..MaxChannels}

InitDispatch ==
    /\ Idle
    /\ \E args \in DispatchArgs :
           call = [fn |-> "sendToAllChannels", args |-> args, phase |-> "called",
                   requests |-> [i \in 1..Len(args.channels) |-> 0],
                   settled |-> {}, ret |-> <<>>]

\* A sequential loop that gives up at the first failed delivery
StartedUntilFailure(channels, outcomes) ==
    {i \in 1..Len(channels) : \A j \in 1..(i - 1) : outcomes[j] = "ok"}

\* channels.map((channel) => sendToChannel(channel, payload)): the channels
\* whose delivery is started
StartedChannels(channels, outcomes) == 1..Len(channels)

\* The settled results as sendToAllChannels reads them: fulfilled or rejected
Fulfilled(outcomes) == [i \in DOMAIN outcomes |-> outcomes[i] = "ok"]

\* The call: an empty list returns at once, otherwise every delivery starts
StartDeliveries ==
    /\ call.fn = "sendToAllChannels"
    /\ call.phase = "called"
    /\ IF Len(call.args.channels) = 0
       THEN call' = [call EXCEPT
                       !.phase = "returned",
                       !.ret = <<sendToAllChannels(call.args.channels,
                                                   Fulfilled(call.args.outcomes))>>]
       ELSE call' = [call EXCEPT
                       !.phase = "pending",
                       !.requests =
                           [i \in 1..Len(call.args.channels) |->
                               IF i \in StartedChannels(call.args.channels, call.args.outcomes)
                               THEN 1 ELSE 0]]
    /\ UNCHANGED idleVars

\* One pending delivery settles
SettleDelivery ==
    /\ call.fn = "sendToAllChannels"
    /\ call.phase = "pending"
    /\ \E i \in {j \in 1..Len(call.args.channels) : call.requests[j] > 0} \ call.settled :
           call' = [call EXCEPT !.settled = call.settled \cup {i}]
    /\ UNCHANGED idleVars

\* await Promise.allSettled(...) resumes: count the failures, throw or return
ReturnDispatch ==
    /\ call.fn = "sendToAllChannels"
    /\ call.phase = "pending"
    /\ call.settled = {j \in 1..Len(call.args.channels) : call.requests[j] > 0}
    /\ call' = [call EXCEPT
                  !.phase = "returned",
                  !.ret = <<sendToAllChannels(call.args.channels,
                                              Fulfilled(call.args.outcomes))>>]
    /\ UNCHANGED idleVars

NextDispatch == StartDeliveries \/ SettleDelivery \/ ReturnDispatch

SpecDispatch == InitDispatch /\ [][NextDispatch]_vars

DispatchReturned == call.fn = "sendToAllChannels" /\ call.phase = "returned"

\* C12: sendToAllChannels over a non-empty list throws exactly when the
\* delivery to every channel failed; with at least one success it returns
\* normally, whatever the number and the positions of the failures.
C12_ThrowsIffAllFailed ==
    (DispatchReturned /\ Len(call.args.channels) > 0) =>
        (call.ret[1].threw <=>
            \A i \in 1..Len(call.args.channels) : call.args.outcomes[i] # "ok")

C12_Witness ==
    /\ DispatchReturned
    /\ Len(call.args.channels) >= 2
    /\ call.args.outcomes[1] # "ok"
    /\ \E i \in 1..Len(call.args.channels) : call.args.outcomes[i] = "ok"
    /\ ~call.ret[1].threw
    /\ call.ret[1].failures >= 1

\* C13: in one dispatch every channel gets exactly one delivery attempt,
\* whatever the outcomes of the other channels and the order in which they
\* settle, and the dispatch returns only when every attempt has settled.
C13_OneAttemptEach ==
    (call.fn = "sendToAllChannels" /\ call.phase # "called") =>
        /\ \A i \in 1..Len(call.args.channels) : call.requests[i] = 1
        /\ call.phase = "returned" => call.settled = 1..Len(call.args.channels)
        /\ call.phase = "returned" => call.ret[1].attempts = Len(call.args.channels)

C13_Witness ==
    /\ DispatchReturned
    /\ Len(call.args.channels) = MaxChannels
    /\ call.args.outcomes[1] = "transport_error"
    /\ call.args.outcomes[2] = "http_error"
    /\ \A i \in 1..Len(call.args.channels) : call.requests[i] = 1
    /\ call.settled = 1..Len(call.args.channels)

(***************************************************************************)
(* fetchWithRetry as a process: the loop over the attempts, each attempt   *)
(* ending in a page or in an error (HTTP status, timeout abort, network),  *)
(* and the backoff between two attempts.  call.made counts the calls of    *)
(* fetch, call.history lists how the attempts ended.                       *)
(***************************************************************************)
INITIAL_RETRY_DELAY_MS == 1000

MAX_RETRY_DELAY_MS == 10000

MaxRetries == 6

AttemptErrors == {"HTTP 500", "aborted", "network"}

InitFetch ==
    /\ Idle
    /\ \E retries \in 0..MaxRetries :
           call = [fn |-> "fetchWithRetry", args |-> [retries |-> retries],
                   phase |-> "loop", attempt |-> 1, made |-> 0, history |-> <<>>,
                   delay |-> 0, delays |-> <<>>, waited |-> 0, ret |-> <<>>]

LoopContinuesOnceMore(attempt, retries) == attempt <= retries + 1

\* attempt <= retries, the condition of the for loop
LoopContinues(attempt, retries) == attempt <= retries

BackoffDelayUncapped(attempt) == INITIAL_RETRY_DELAY_MS * 2 ^ (attempt - 1)

\* Math.min(INITIAL_RETRY_DELAY_MS * 2 ** (attempt - 1), MAX_RETRY_DELAY_MS)
BackoffDelay(attempt) == Min(INITIAL_RETRY_DELAY_MS * 2 ^ (attempt - 1), MAX_RETRY_DELAY_MS)

\* An attempt fetches the page: return { content, status }
AttemptSucceeds ==
    /\ call.fn = "fetchWithRetry"
    /\ call.phase = "loop"
    /\ LoopContinues(call.attempt, call.args.retries)
    /\ \E content \in Contents :
           call' = [call EXCEPT
                      !.phase = "returned", !.made = call.made + 1,
                      !.history = Append(call.history, "ok"),
                      !.ret = <<[content |-> content, status |-> 200, error |-> None]>>]
    /\ UNCHANGED idleVars

\* An attempt throws: the catch block returns the error result on the last
\* attempt and otherwise starts the backoff
AttemptFails ==
    /\ call.fn = "fetchWithRetry"
    /\ call.phase = "loop"
    /\ LoopContinues(call.attempt, call.args.retries)
    /\ \E e \in AttemptErrors :
           IF call.attempt = call.args.retries
           THEN call' = [call EXCEPT
                           !.phase = "returned", !.made = call.made + 1,
                           !.history = Append(call.history, e),
                           !.ret = <<[content |-> EmptyStr, status |-> 0, error |-> Some(e)]>>]
           ELSE call' = [call EXCEPT
                           !.phase = "backoff", !.made = call.made + 1,
                           !.history = Append(call.history, e),
                           !.delay = BackoffDelay(call.attempt),
                           !.delays = Append(call.delays, BackoffDelay(call.attempt))]
    /\ UNCHANGED idleVars

\* The backoff timer fires and the loop goes to the next attempt
BackoffElapses ==
    /\ call.fn = "fetchWithRetry"
    /\ call.phase = "backoff"
    /\ call' = [call EXCEPT !.phase = "loop", !.attempt = call.attempt + 1,
                            !.waited = call.waited + call.delay]
    /\ UNCHANGED idleVars

\* The loop ends without a return: { content: "", status: 0, error: "Max retries exceeded" }
LoopExits ==
    /\ call.fn = "fetchWithRetry"
    /\ call.phase = "loop"
    /\ ~LoopContinues(call.attempt, call.args.retries)
    /\ call' = [call EXCEPT
                  !.phase = "returned",
                  !.ret = <<[content |-> EmptyStr, status |-> 0,
                             error |-> Some("Max retries exceeded")]>>]
    /\ UNCHANGED idleVars

NextFetch == AttemptSucceeds \/ AttemptFails \/ BackoffElapses \/ LoopExits

\* An await of fetchWithRetry resumes: the fetch is bounded by the abort
\* timer and the backoff by its timeout
SpecFetch == InitFetch /\ [][NextFetch]_vars /\ WF_vars(NextFetch)

FetchReturned == call.fn = "fetchWithRetry" /\ call.phase = "returned"

\* The attempts before the last one of the history all failed
EarlierAttemptsFailed ==
    \A i \in 1..(Len(call.history) - 1) : call.history[i] \in AttemptErrors

\* What holds of the attempts at every moment, and of the result
FetchWithinBudget ==
    call.fn = "fetchWithRetry" =>
        /\ call.made <= call.args.retries
        /\ call.made = Len(call.history)
        /\ EarlierAttemptsFailed
        /\ call.phase = "returned" =>
               IF call.ret[1].error = None
               THEN /\ call.made >= 1
                    /\ call.history[call.made] = "ok"
                    /\ call.ret[1].status = 200
               ELSE /\ call.made = call.args.retries
                    /\ \A i \in 1..call.made : call.history[i] \in AttemptErrors
                    /\ call.ret[1].status = 0
                    /\ call.ret[1].content = EmptyStr

\* C14: fetchWithRetry calls fetch at most `retries` times, stops at the
\* first attempt that succeeds, returns the error result (status 0, error
\* set) when every attempt failed, and returns a result for every retry
\* budget, 0 included.
C14_RetryBudget == [](FetchWithinBudget) /\ <>(FetchReturned)

C14_Witness ==
    /\ FetchReturned
    /\ call.args.retries >= 3
    /\ call.made = call.args.retries
    /\ call.ret[1].error # None
    /\ call.waited > 0

(***************************************************************************)
(* One run of main over several websites.  Every enabled website has a     *)
(* task; a task awaits fetchWithRetry and then runs the rest of            *)
(* monitorWebsite and, when that throws, the catch block; the tasks        *)
(* interleave at their awaits.  call.stores[r] is the snapshot file of     *)
(* website r, call.tasks[r] the position and the outcome of its task.      *)
(***************************************************************************)
NumSites == 2

Sites == 1..NumSites

SiteAt(r, enabled) ==
    [Site(None, None) EXCEPT !.url = <<"https://example.com/", r>>, !.enabled = enabled]

\* A snapshot of earlier runs: content "a", one failure short of the threshold
ExistingSnapshot(w) ==
    [SuccessSnapshot(w, Entry(<<"a">>, calculateHash(<<"a">>), 200), None,
                     FirstRunResult(w.url, w.name, calculateHash(<<"a">>)), 0)
        EXCEPT !.error_count = error_notification_threshold - 1]

NoTask == [pc |-> "skipped", fetchResult |-> None, run |-> NoRun]

InitMain ==
    /\ store = None
    /\ now = StartTime
    /\ website = Site(None, None)
    /\ config = ConfigWith(Some("main"))
    /\ lastRun = NoRun
    /\ burst = <<>>
    /\ alerts = <<>>
    /\ \E enabled \in [Sites -> BOOLEAN], snapshots \in [Sites -> BOOLEAN] :
           call = [fn |-> "main",
                   websites |-> [r \in Sites |-> SiteAt(r, enabled[r])],
                   stores |-> [r \in Sites |->
                                  IF snapshots[r]
                                  THEN Some(ExistingSnapshot(SiteAt(r, enabled[r])))
                                  ELSE None],
                   tasks |-> [r \in Sites |->
                                 IF enabled[r] THEN [NoTask EXCEPT !.pc = "fetching"]
                                 ELSE NoTask],
                   phase |-> "running", results |-> <<>>]

\* config.websites.filter((w) => w.enabled)
EnabledSites == {r \in Sites : call.websites[r].enabled}

\* await fetchWithRetry(...) of website r resumes with a result
TaskFetched ==
    /\ call.fn = "main"
    /\ call.phase = "running"
    /\ \E r \in EnabledSites, fetchResult \in FetchResults :
           /\ call.tasks[r].pc = "fetching"
           /\ call' = [call EXCEPT !.tasks[r].pc = "fetched",
                                   !.tasks[r].fetchResult = Some(fetchResult)]
    /\ UNCHANGED idleVars

\* The rest of the task of website r, up to the settling of its promise
TaskSettles ==
    /\ call.fn = "main"
    /\ call.phase = "running"
    /\ \E r \in EnabledSites, io \in SaveOutcomes, delivered \in Deliveries(1) :
           /\ call.tasks[r].pc = "fetched"
           /\ IF call.tasks[r].fetchResult[1].error # None
              THEN io.monitor
              ELSE io.monitor => (io.error /\ io.update)
           /\ \E out \in {MainTask(call.websites[r], config, call.stores[r],
                                   call.tasks[r].fetchResult[1], now, io, delivered, now)} :
                  call' = [call EXCEPT !.tasks[r].pc = "settled",
                                       !.tasks[r].run = out.run,
                                       !.stores[r] = out.store]
    /\ UNCHANGED idleVars

\* Promise.all in the place of Promise.allSettled: main goes on when every
\* task has settled, and throws as soon as one has rejected
AwaitTasksFailFast(tasks, enabledSites) ==
    LET rejected == \E r \in enabledSites :
                        tasks[r].pc = "settled" /\ tasks[r].run.kind = "rejected"
    IN  [ready |-> rejected \/ \A r \in enabledSites : tasks[r].pc = "settled",
         threw |-> rejected]

\* await Promise.allSettled(monitoringPromises): main goes on when every task
\* has settled, fulfilled or rejected, and never throws here
AwaitTasks(tasks, enabledSites) ==
    [ready |-> \A r \in enabledSites : tasks[r].pc = "settled", threw |-> FALSE]

\* The loop over monitoringResults: a fulfilled task contributes its result,
\* a rejected one is logged
RECURSIVE CollectResults(_, _)
CollectResults(tasks, r) ==
    IF r > NumSites THEN <<>>
    ELSE (IF tasks[r].pc = "settled" /\ tasks[r].run.kind \in {"monitored", "failed"}
          THEN <<tasks[r].run.result[1]>> ELSE <<>>)
         \o CollectResults(tasks, r + 1)

\* The counts the summary prints
Summary(results, enabledSites) ==
    [checked |-> Cardinality(enabledSites),
     changed |-> Cardinality({i \in 1..Len(results) : results[i].changed}),
     initial |-> Cardinality({i \in 1..Len(results) : results[i].isFirstRun}),
     errors |-> Cardinality({i \in 1..Len(results) : results[i].error # None})]

\* main after the await: the results, then the summary
Summarize ==
    /\ call.fn = "main"
    /\ call.phase = "running"
    /\ \E go \in {AwaitTasks(call.tasks, EnabledSites)} :
           /\ go.ready
           /\ IF go.threw
              THEN call' = [call EXCEPT !.phase = "crashed"]
              ELSE call' = [call EXCEPT !.phase = "summary",
                                        !.results = CollectResults(call.tasks, 1)]
    /\ UNCHANGED idleVars

NextMain == TaskFetched \/ TaskSettles \/ Summarize

SpecMain == InitMain /\ [][NextMain]_vars

(***************************************************************************)
(* Properties of one run of main over several websites, under SpecMain.    *)
(***************************************************************************)
MainSummarized == call.fn = "main" /\ call.phase = "summary"

\* The task of website r ended as its own fetch and its own snapshot writes
\* make it end: a failed fetch or a failed write is a failed or rejected
\* task, anything else a monitored one with the result of that website
OwnOutcome(r) ==
    LET task == call.tasks[r]
    IN  /\ task.pc = "settled"
        /\ task.run.fetchOk <=> (task.fetchResult[1].error = None)
        /\ (task.run.kind = "monitored") <=> (task.run.fetchOk /\ ~task.run.saveThrew)
        /\ task.run.kind \in {"monitored", "failed"} =>
               task.run.result[1].url = call.websites[r].url

MainIsolatesTasks ==
    call.fn = "main" =>
        /\ call.phase # "crashed"
        /\ call.phase = "summary" => \A r \in EnabledSites : OwnOutcome(r)

\* C15: whatever fails in the task of one website (the fetch, a snapshot
\* write, a notification) and however the tasks interleave, every enabled
\* website's task runs to its end with its own outcome and main does not
\* throw; before the summary a task is still awaiting its fetch or the rest
\* of its pipeline, or main can go on to the summary, and every step moves a
\* task or main forward, so main reaches the summary.
C15_TasksIsolated ==
    /\ MainIsolatesTasks
    /\ (call.fn = "main" /\ call.phase = "running") =>
           IF \E r \in EnabledSites : call.tasks[r].pc \in {"fetching", "fetched"}
           THEN TRUE
           ELSE ENABLED Summarize

C15_Witness ==
    /\ MainSummarized
    /\ \E r, s \in EnabledSites :
           /\ r < s
           /\ call.tasks[r].run.kind = "rejected"
           /\ call.tasks[s].run.kind = "monitored"
           /\ call.tasks[s].run.change.called
           /\ ~call.tasks[s].run.change.threw

\* C17: a saveSnapshot that fails throws, and the task of that website ends
\* without success and without a change notification; the tasks of the other
\* enabled websites still settle before the summary.
C17_SaveFailureIsFatal ==
    call.fn = "main" =>
        /\ \A r \in EnabledSites :
               (call.tasks[r].pc = "settled" /\ call.tasks[r].run.saveThrew) =>
                   /\ call.tasks[r].run.kind \in {"failed", "rejected"}
                   /\ ~call.tasks[r].run.change.called
        /\ call.phase = "summary" =>
               \A r \in EnabledSites : call.tasks[r].pc = "settled"

C17_Witness ==
    /\ MainSummarized
    /\ \E r, s \in EnabledSites :
           /\ r # s
           /\ call.tasks[r].run.fetchOk
           /\ call.tasks[r].run.saveThrew
           /\ call.tasks[r].run.kind = "failed"
           /\ ~call.tasks[r].run.change.called
           /\ call.tasks[s].run.kind = "monitored"
           /\ call.tasks[s].run.saved

\* C18: after any run the results hold exactly one outcome per enabled
\* website, and the errors count is the number of enabled websites whose task
\* did not succeed.
C18_SummaryAccountsForAll ==
    MainSummarized =>
        /\ Len(call.results) = Cardinality(EnabledSites)
        /\ Summary(call.results, EnabledSites).errors =
               Cardinality({r \in EnabledSites : call.tasks[r].run.kind # "monitored"})

(***************************************************************************)
(* Properties of the change notification and of the saved snapshot, under  *)
(* Spec.                                                                   *)
(***************************************************************************)
\* The last task compared the content: the result of compareContent
Compared == lastRun.kind = "monitored" /\ lastRun.result # None

\* The stored current entry is the entry the last task fetched
CurrentIsFetched ==
    /\ store # None
    /\ Some(store[1].current.hash) = lastRun.result[1].newHash
    /\ calculateHash(store[1].current.content) = store[1].current.hash
    /\ store[1].current.status = 200

\* C16: when the dispatch of the change notification fails (every channel
\* failed, or the resolution of the channels raised), the task still succeeds
\* with the changed or first-run result and no error, the new snapshot stays
\* saved, and error_count is what it was before the run.
C16_NotificationFailureNotFatal ==
    (lastRun.change.called /\ lastRun.change.threw) =>
        /\ Compared
        /\ lastRun.result[1].changed \/ lastRun.result[1].isFirstRun
        /\ lastRun.result[1].error = None
        /\ lastRun.saved
        /\ CurrentIsFetched
        /\ store[1].error_count = lastRun.before.error_count
        /\ ~lastRun.errorN.called

C16_Witness ==
    /\ lastRun.change.called
    /\ lastRun.change.threw
    /\ lastRun.change.attempts = 0
    /\ ReferencesUndefined(website, config)
    /\ Compared
    /\ lastRun.result[1].changed
    /\ CurrentIsFetched

\* C19: after a run that found the content changed, the stored previous entry
\* is the current entry that was stored before the run, the stored current
\* entry is the newly fetched one, and a change notification was dispatched,
\* with one delivery attempt for every resolved channel.
C19_PreviousIsPriorCurrent ==
    RunChanged =>
        /\ lastRun.before.snapshot # None
        /\ store[1].previous = Some(lastRun.before.snapshot[1].current)
        /\ CurrentIsFetched
        /\ store[1].current # lastRun.before.snapshot[1].current
        /\ lastRun.change.called
        /\ resolveNotifiers(website, config).ok =>
               lastRun.change.attempts = Len(resolveNotifiers(website, config).value)

C19_Witness ==
    /\ RunChanged
    /\ store[1].previous = Some(lastRun.before.snapshot[1].current)
    /\ store[1].previous[1].hash # EmptyStr
    /\ lastRun.change.called
    /\ lastRun.change.attempts = 2
    /\ lastRun.change.failures = 1

\* The change notification is warranted by the result of the comparison
Warranted ==
    \/ lastRun.result[1].changed
    \/ (lastRun.result[1].isFirstRun /\ website.notifyOnFirstRun # Some(FALSE))

\* C20: a run dispatches a change notification exactly when its fetch
\* succeeded (and the snapshot write did not fail) and the content changed or
\* it is the first run with notifyOnFirstRun not false.  A run that finds the
\* content unchanged dispatches nothing and leaves the stored snapshot as it
\* was; a first run with notifyOnFirstRun false stores the snapshot and
\* dispatches nothing.
C20_ChangeNotificationRule ==
    lastRun.kind # "none" =>
        /\ lastRun.change.called <=> (Compared /\ Warranted)
        /\ lastRun.change.called => lastRun.fetchOk
        /\ (Compared /\ ~lastRun.result[1].changed /\ ~lastRun.result[1].isFirstRun) =>
               (~lastRun.change.called /\ store = lastRun.before.snapshot)
        /\ (Compared /\ lastRun.result[1].isFirstRun
            /\ website.notifyOnFirstRun = Some(FALSE)) =>
               (~lastRun.change.called /\ lastRun.saved /\ CurrentIsFetched)
        /\ (lastRun.fetchOk /\ ~lastRun.saveThrew) => Compared

C20_Witness ==
    /\ Compared
    /\ lastRun.result[1].isFirstRun
    /\ website.notifyOnFirstRun = Some(FALSE)
    /\ ~lastRun.change.called
    /\ lastRun.saved
    /\ lastRun.before.present

(***************************************************************************)
(* The task of one website, statement by statement: monitorWebsite in the  *)
(* try block of main's task and the catch block after it.  call.todo is    *)
(* what the task still has to execute, call.log the statements it has      *)
(* executed, in order; store is the snapshot file of the website.          *)
(***************************************************************************)
InitPipeline ==
    /\ now = StartTime
    /\ \E setup \in Setups :
           /\ website = setup.website
           /\ config = setup.config
           /\ store \in {None, Some(ExistingSnapshot(setup.website))}
    /\ lastRun = NoRun
    /\ burst = <<>>
    /\ alerts = <<>>
    /\ call = [fn |-> "task", todo |-> <<"fetch">>, log |-> <<>>, fetchResult |-> None,
               existing |-> None, newEntry |-> None, result |-> None,
               snapshot |-> None, updated |-> None, outcome |-> "pending"]

pipelineVars == <<now, website, config, lastRun, burst, alerts>>

MonitorStepsNotifyFirst(result, w) ==
    IF ~(result.changed \/ result.isFirstRun) THEN <<>>
    ELSE IF ShouldNotifyChange(result, w) THEN <<"notify", "save">>
    ELSE <<"save">>

\* What monitorWebsite executes after compareContent: saveSnapshot and then
\* sendChangeNotification, both inside if (result.changed || result.isFirstRun)
MonitorSteps(result, w) ==
    IF ~(result.changed \/ result.isFirstRun) THEN <<>>
    ELSE IF ShouldNotifyChange(result, w) THEN <<"save", "notify">>
    ELSE <<"save">>

\* What the catch block of main's task executes: saveSnapshot(snapshot), then
\* sendErrorNotification in its own try block
CatchSteps == <<"errorSave", "errorNotify">>

Executed(step) == Append(call.log, step)

\* The task returns or rejects when nothing is left to execute
Settled(todo, outcome) == IF todo = <<>> THEN outcome ELSE "pending"

\* await fetchWithRetry(...): a fetch error makes monitorWebsite throw
FetchCompletes ==
    /\ call.fn = "task" /\ call.todo # <<>> /\ Head(call.todo) = "fetch"
    /\ \E fetchResult \in FetchResults :
           call' = [call EXCEPT
                      !.log = Executed("fetch"),
                      !.fetchResult = Some(fetchResult),
                      !.todo = IF fetchResult.error # None THEN CatchSteps
                               ELSE <<"diff">>]
    /\ UNCHANGED <<store, pipelineVars>>

\* newEntry, loadSnapshot and compareContent
DiffComputed ==
    /\ call.fn = "task" /\ call.todo # <<>> /\ Head(call.todo) = "diff"
    /\ LET fetchResult == call.fetchResult[1]
           newEntry == [timestamp |-> formatTimestamp(now), content |-> fetchResult.content,
                        status |-> fetchResult.status,
                        hash |-> calculateHash(fetchResult.content)]
           oldEntry == IF store = None THEN None ELSE Some(store[1].current)
       IN  \E result \in {compareContent(newEntry, oldEntry, website.url, website.name,
                                         IF oldEntry = None THEN <<>>
                                         ELSE diffLines(oldEntry[1].content,
                                                        newEntry.content))} :
               \E todo \in {MonitorSteps(result, website)} :
                   call' = [call EXCEPT
                              !.log = Executed("diff"),
                              !.existing = store,
                              !.newEntry = Some(newEntry),
                              !.result = Some(result),
                              !.todo = todo,
                              !.outcome = Settled(todo, "success")]
    /\ UNCHANGED <<store, pipelineVars>>

\* saveSnapshot({...}) of monitorWebsite: an I/O error propagates to the
\* catch block of the task
SnapshotSaved ==
    /\ call.fn = "task" /\ call.todo # <<>> /\ Head(call.todo) = "save"
    /\ \E saveOk \in BOOLEAN :
           IF saveOk
           THEN /\ store' = Some(SuccessSnapshot(website, call.newEntry[1], call.existing,
                                                 call.result[1], now))
                /\ call' = [call EXCEPT
                              !.log = Executed("save"),
                              !.todo = Tail(call.todo),
                              !.outcome = Settled(Tail(call.todo), "success")]
           ELSE /\ store' = store
                /\ call' = [call EXCEPT !.log = Executed("saveThrew"), !.todo = CatchSteps]
    /\ UNCHANGED pipelineVars

\* await sendChangeNotification(result, website), its errors caught
ChangeNotified ==
    /\ call.fn = "task" /\ call.todo # <<>> /\ Head(call.todo) = "notify"
    /\ \E delivered \in Deliveries(ChannelCount) :
           \E sent \in {sendChangeNotification(call.result[1], website, config, delivered)} :
               call' = [call EXCEPT
                          !.log = Executed("notify"),
                          !.todo = Tail(call.todo),
                          !.outcome = Settled(Tail(call.todo), "success")]
    /\ UNCHANGED <<store, pipelineVars>>

\* loadSnapshot, the error snapshot and saveSnapshot(snapshot) of the catch
\* block: an I/O error rejects the task
ErrorSnapshotSaved ==
    /\ call.fn = "task" /\ call.todo # <<>> /\ Head(call.todo) = "errorSave"
    /\ \E saveOk \in BOOLEAN, snapshot \in {ErrorSnapshot(website, store, now)} :
           IF saveOk
           THEN /\ store' = Some(snapshot)
                /\ call' = [call EXCEPT
                              !.log = Executed("errorSave"),
                              !.snapshot = Some(snapshot),
                              !.todo = Tail(call.todo),
                              !.outcome = Settled(Tail(call.todo), "failure")]
           ELSE /\ store' = store
                /\ call' = [call EXCEPT
                              !.log = Executed("errorSaveThrew"),
                              !.snapshot = Some(snapshot),
                              !.todo = <<>>,
                              !.outcome = "rejected"]
    /\ UNCHANGED pipelineVars

\* await sendErrorNotification(website, error, currentSnapshot), its errors
\* caught; a returned snapshot is saved next
ErrorNotified ==
    /\ call.fn = "task" /\ call.todo # <<>> /\ Head(call.todo) = "errorNotify"
    /\ \E delivered \in Deliveries(ChannelCount) :
           \E e \in {sendErrorNotification(website, call.snapshot, config, delivered,
                                           now, now)} :
               \E todo \in {IF ~e.threw /\ e.ret # None
                            THEN Tail(call.todo) \o <<"update">>
                            ELSE Tail(call.todo)} :
                   call' = [call EXCEPT
                              !.log = Executed("errorNotify"),
                              !.updated = IF e.threw THEN None ELSE e.ret,
                              !.todo = todo,
                              !.outcome = Settled(todo, "failure")]
    /\ UNCHANGED <<store, pipelineVars>>

\* saveSnapshot(updatedSnapshot), inside the try block of the notification
UpdatedSnapshotSaved ==
    /\ call.fn = "task" /\ call.todo # <<>> /\ Head(call.todo) = "update"
    /\ \E saveOk \in BOOLEAN :
           /\ store' = IF saveOk THEN call.updated ELSE store
           /\ call' = [call EXCEPT
                         !.log = Executed(IF saveOk THEN "update" ELSE "updateThrew"),
                         !.todo = Tail(call.todo),
                         !.outcome = Settled(Tail(call.todo), "failure")]
    /\ UNCHANGED pipelineVars

NextPipeline ==
    \/ FetchCompletes
    \/ DiffComputed
    \/ SnapshotSaved
    \/ ChangeNotified
    \/ ErrorSnapshotSaved
    \/ ErrorNotified
    \/ UpdatedSnapshotSaved

SpecPipeline == InitPipeline /\ [][NextPipeline]_vars

(***************************************************************************)
(* C21                                                                     *)
(***************************************************************************)
\* Every occurrence of statement b in the log comes after one of statement a
Precedes(a, b) ==
    \A j \in 1..Len(call.log) :
        call.log[j] = b => \E i \in 1..(j - 1) : call.log[i] = a

PipelineRuns == call.fn = "task"

\* C21: within the pipeline of one resource the steps are strictly
\* sequential.  The diff is computed only after the fetch has completed, the
\* snapshot is saved only after the diff, and the change notification is
\* dispatched only after the new snapshot has been saved successfully, so the
\* store then holds the fetched content; on the failure path the error
\* snapshot is saved before the error notification is evaluated, so the store
\* then holds the error count the evaluation sees.
C21_StepsSequential ==
    PipelineRuns =>
        /\ Precedes("fetch", "diff")
        /\ Precedes("diff", "save")
        /\ Precedes("save", "notify")
        /\ Precedes("errorSave", "errorNotify")
        /\ \A j \in 1..Len(call.log) :
               /\ call.log[j] = "notify" =>
                      /\ store # None
                      /\ store[1].current = call.newEntry[1]
               /\ call.log[j] = "errorNotify" =>
                      /\ store # None
                      /\ call.snapshot # None
                      /\ store[1].error_count = call.snapshot[1].error_count

C21_Witness ==
    /\ PipelineRuns
    /\ call.outcome = "success"
    /\ call.log = <<"fetch", "diff", "save", "notify">>

(***************************************************************************)
(* C22                                                                     *)
(***************************************************************************)
\* The latest run called sendErrorNotification
ErrorEvaluated == lastRun.kind = "failed" /\ lastRun.errorN.called

\* The notification time the store held before the latest run, 0 when none
NotifiedBefore ==
    IF lastRun.before.snapshot = None
       \/ lastRun.before.snapshot[1].last_error_notification_time = None
    THEN 0
    ELSE lastRun.before.snapshot[1].last_error_notification_time[1]

\* Throttling suppresses the error notification of the latest run: the error
\* count the run wrote is below the threshold, or the cooldown since the last
\* notification has not elapsed at the check
Throttled ==
    \/ lastRun.before.error_count + 1 < config.settings.error_notification_threshold
    \/ lastRun.errorN.checkedAt - NotifiedBefore
           < config.settings.error_notification_cooldown_ms

\* C22: when throttling suppresses an error notification, no delivery is
\* attempted, sendErrorNotification returns null, and the persisted
\* last_error_notification_time is the one the store held before the run:
\* the run wrote the incremented error_count only.
C22_ThrottledLeavesTime ==
    (ErrorEvaluated /\ Throttled) =>
        /\ lastRun.errorN.attempts = 0
        /\ ~lastRun.errorN.threw
        /\ lastRun.errorN.ret = None
        /\ store # None
        /\ store[1].error_count = lastRun.before.error_count + 1
        /\ store[1].last_error_notification_time
               = (IF lastRun.before.snapshot = None THEN None
                  ELSE lastRun.before.snapshot[1].last_error_notification_time)

\* A run within the cooldown of a persisted notification
C22_Witness ==
    /\ ErrorEvaluated
    /\ Throttled
    /\ NotifiedBefore # 0
    /\ lastRun.before.error_count + 1 >= config.settings.error_notification_threshold
    /\ ChannelCount > 0
    /\ store[1].last_error_notification_time = Some(NotifiedBefore)

(***************************************************************************)
(* C23                                                                     *)
(***************************************************************************)
\* The latest run sent an error notification: the dispatch delivered to at
\* least one channel and did not throw
ErrorNotificationSent ==
    /\ ErrorEvaluated
    /\ lastRun.errorN.shouldNotify
    /\ ~lastRun.errorN.threw
    /\ lastRun.errorN.attempts > lastRun.errorN.failures

\* The store holds the error snapshot of the latest run but for field
\* last_error_notification_time: the snapshot from before the run with
\* error_count incremented, or the placeholder with error_count 1
HoldsErrorSnapshot ==
    /\ store # None
    /\ IF lastRun.before.snapshot # None
       THEN /\ [store[1] EXCEPT !.error_count = 0, !.last_error_notification_time = None]
                 = [lastRun.before.snapshot[1] EXCEPT
                      !.error_count = 0, !.last_error_notification_time = None]
            /\ store[1].error_count = lastRun.before.snapshot[1].error_count + 1
       ELSE /\ store[1].url = website.url
            /\ store[1].name = website.name
            /\ store[1].current.hash = EmptyStr
            /\ store[1].current.content = EmptyStr
            /\ store[1].previous = None
            /\ store[1].change_count = 0
            /\ store[1].error_count = 1

\* C23: when an error notification is sent and the write of the updated
\* snapshot succeeds, the snapshot persisted at the end of the run has
\* last_error_notification_time set to the time the dispatch completed and
\* is otherwise the error snapshot saved just before the dispatch.
C23_SentTimePersisted ==
    (ErrorNotificationSent /\ ~lastRun.errorN.updateThrew) =>
        /\ HoldsErrorSnapshot
        /\ store[1].last_error_notification_time = Some(now)

\* A delivery that took time, so that the send time differs from the time of
\* the throttling check
C23_Witness ==
    /\ ErrorNotificationSent
    /\ ~lastRun.errorN.updateThrew
    /\ lastRun.before.snapshot # None
    /\ now > lastRun.errorN.checkedAt
    /\ store[1].last_error_notification_time = Some(now)

(***************************************************************************)
(* C24                                                                     *)
(***************************************************************************)
Truncated == call.fn = "truncateText" /\ Len(call.ret) >= 1

\* The emitted lines that the per-line cap shortened
ShortenedLines(lines, emitted, options) ==
    {i \in 1..emitted :
        IF options.maxLength = None THEN FALSE ELSE Len(lines[i]) > options.maxLength[1]}

\* The number of characters of the input that the result before the marker
\* shows: its length without the ellipsis of every shortened line
InputCharsEmitted(run, lines, options) ==
    Len(run.kept) - Len(Ellipsis) * Cardinality(ShortenedLines(lines, run.emitted, options))

\* C24: the truncation markers state a consistent count.  N in
\* '... and N more lines' is the number of input lines not emitted, and M in
\* '(truncated, M more characters)' is the number of input characters not
\* emitted, for every input, the inputs with lines shortened by the per-line
\* cap included.
C24_MarkersConsistent ==
    Truncated =>
        LET run == call.ret[1]
            text == call.args.text
            lines == SplitLines(text)
        IN  /\ run.cut = "lines" =>
                   run.result = run.kept \o MoreLinesMarker(Len(lines) - run.emitted)
            /\ run.cut = "size" =>
                   run.result = run.kept
                       \o MoreCharsMarker(Len(text)
                                            - InputCharsEmitted(run, lines, call.args.options))

(***************************************************************************)
(* C25                                                                     *)
(***************************************************************************)
\* The failed attempts of the history that were not the final attempt
RetriedAttempts ==
    {k \in 1..Len(call.history) :
        call.history[k] \in AttemptErrors /\ k < call.args.retries}

RECURSIVE SumOf(_)
SumOf(s) == IF s = <<>> THEN 0 ELSE Head(s) + SumOf(Tail(s))

\* C25: the delay after failed attempt k (1-indexed, k < retries) is
\* min(1000 * 2^(k-1), 10000) milliseconds, so the delays never decrease and
\* never exceed 10000; there is one delay per failed attempt before the
\* final one and none after the final failed attempt.
C25_BackoffDelays ==
    call.fn = "fetchWithRetry" =>
        /\ DOMAIN call.delays = RetriedAttempts
        /\ \A k \in DOMAIN call.delays :
               /\ call.delays[k] = (IF 1000 * 2 ^ (k - 1) < 10000
                                    THEN 1000 * 2 ^ (k - 1) ELSE 10000)
               /\ call.delays[k] <= 10000
               /\ k > 1 => call.delays[k - 1] <= call.delays[k]
        /\ call.phase = "backoff" => call.delay = call.delays[Len(call.delays)]
        /\ call.phase = "returned" => call.waited = SumOf(call.delays)
        /\ (call.phase = "returned" /\ call.ret[1].error # None /\ call.args.retries > 0) =>
               Len(call.delays) = call.args.retries - 1

\* Every attempt of a budget of six failed: the fifth delay is capped
C25_Witness ==
    /\ FetchReturned
    /\ call.args.retries = 6
    /\ call.ret[1].error # None
    /\ call.delays = <<1000, 2000, 4000, 8000, 10000>>
    /\ call.waited = 25000

(***************************************************************************)
(* The snapshot files of two websites of one configuration.  Each task     *)
(* loads the snapshot of its website and then saves one: loadSnapshot is   *)
(* called as main and monitorWebsite call it, saveSnapshot takes the url   *)
(* and the name of the snapshot it is given.  call.files maps the paths    *)
(* written so far to the (url, name) of the snapshot they hold.            *)
(***************************************************************************)
SNAPSHOTS_DIR == "./snapshots"

\* The file name of a snapshot: a key of the url and the name, different for
\* different pairs.  name is None for a call that passes no name.
filenameFromUrlAndName(url, name) == <<url, name>>

\* path.join(SNAPSHOTS_DIR, filenameFromUrlAndName(url, name))
getSnapshotPath(url, name) == <<SNAPSHOTS_DIR, filenameFromUrlAndName(url, name)>>

\* The path loadSnapshot(website.url) reads: the callers pass the url only
LoadPath(w) == getSnapshotPath(w.url, None)

\* The path saveSnapshot(snapshot) writes
SavePath(snapshot) == getSnapshotPath(snapshot.url, Some(snapshot.name))

StoreUrls == {"https://example.com/a", "https://example.com/b"}

StoreNames == {"one", "two"}

StoreSites == {[Site(None, None) EXCEPT !.url = u, !.name = n] : u \in StoreUrls, n \in StoreNames}

NoAccess == [pc |-> "load", loaded |-> None, found |-> None, saved |-> None]

InitStore ==
    /\ Idle
    /\ \E w1 \in StoreSites, w2 \in StoreSites :
           /\ <<w1.url, w1.name>> # <<w2.url, w2.name>>
           /\ call = [fn |-> "store", websites |-> <<w1, w2>>,
                      tasks |-> <<NoAccess, NoAccess>>, files |-> {}]

\* The record a path holds, None when the file does not exist
FileAt(files, path) ==
    IF \E f \in files : f.path = path
    THEN Some((CHOOSE f \in files : f.path = path).snapshot)
    ELSE None

\* const existing = loadSnapshot(website.url)
LoadSnapshotOf(r) ==
    /\ call.fn = "store"
    /\ call.tasks[r].pc = "load"
    /\ \E path \in {LoadPath(call.websites[r])} :
           call' = [call EXCEPT
                      !.tasks[r] = [@ EXCEPT !.pc = "save", !.loaded = Some(path),
                                             !.found = FileAt(call.files, path)]]
    /\ UNCHANGED idleVars

\* saveSnapshot(...) of monitorWebsite (url and name of the website) or of the
\* catch block (the loaded snapshot spread, or url and name of the website)
SaveSnapshotOf(r) ==
    /\ call.fn = "store"
    /\ call.tasks[r].pc = "save"
    /\ \E fetchOk \in BOOLEAN :
           \E snapshot \in {IF fetchOk \/ call.tasks[r].found = None
                            THEN [url |-> call.websites[r].url,
                                  name |-> call.websites[r].name]
                            ELSE call.tasks[r].found[1]} :
               \E path \in {SavePath(snapshot)} :
                   call' = [call EXCEPT
                              !.tasks[r] = [@ EXCEPT !.pc = "done", !.saved = Some(path)],
                              !.files = {f \in call.files : f.path # path}
                                            \cup {[path |-> path, snapshot |-> snapshot]}]
    /\ UNCHANGED idleVars

\* The next invocation of main runs the task of the website again
RunAgain(r) ==
    /\ call.fn = "store"
    /\ call.tasks[r].pc = "done"
    /\ call' = [call EXCEPT !.tasks[r] = [@ EXCEPT !.pc = "load"]]
    /\ UNCHANGED idleVars

NextStore == \E r \in {1, 2} : LoadSnapshotOf(r) \/ SaveSnapshotOf(r) \/ RunAgain(r)

SpecStore == InitStore /\ [][NextStore]_vars

(***************************************************************************)
(* C26                                                                     *)
(***************************************************************************)
\* The paths the task of website r has read or written
PathsOf(r) ==
    (IF call.tasks[r].loaded = None THEN {} ELSE {call.tasks[r].loaded[1]})
        \cup (IF call.tasks[r].saved = None THEN {} ELSE {call.tasks[r].saved[1]})

\* C26: the snapshot store is partitioned by resource identity.  Two distinct
\* enabled resources, that is two distinct (url, name) pairs, two resources
\* that share a URL included, never load or save the same snapshot record.
C26_StorePartitioned ==
    call.fn = "store" => PathsOf(1) \cap PathsOf(2) = {}

(***************************************************************************)
(* C27                                                                     *)
(***************************************************************************)
\* C27: for one resource, over any sequence of runs, failed fetches
\* interleaved with successful ones, any two dispatched error notifications
\* are separated by at least error_notification_cooldown_ms: the throttling
\* state carried in the snapshot is never lost between an error notification
\* and the next failure.  Stated for the notifications that were delivered
\* and whose time the run saved to the snapshot: the throttling check of
\* every later notification comes at least the cooldown after that time.
C27_CooldownAcrossRuns ==
    \A i, j \in 1..Len(alerts) :
        (i < j /\ alerts[i].recorded # None) =>
            alerts[j].at - alerts[i].recorded[1]
                >= config.settings.error_notification_cooldown_ms

(***************************************************************************)
(* C28                                                                     *)
(***************************************************************************)
\* The notification time the store holds, 0 when none
NotifiedNow ==
    IF store = None \/ store[1].last_error_notification_time = None
    THEN 0 ELSE store[1].last_error_notification_time[1]

\* C28: the persisted last_error_notification_time changes only in a run in
\* which an error notification was delivered successfully to at least one
\* channel: it is not set when throttling suppressed the notification, when
\* the resolved channel list is empty, or when every channel failed.
C28_TimeChangesOnlyOnDelivery ==
    lastRun.kind # "none" =>
        (NotifiedNow # NotifiedBefore => ErrorNotificationSent)

(***************************************************************************)
(* C29                                                                     *)
(***************************************************************************)
\* The latest run failed to fetch a resource that had a snapshot, and saved
\* its error snapshot
FailedFetchOfKnown ==
    /\ lastRun.kind = "failed"
    /\ ~lastRun.fetchOk
    /\ lastRun.before.snapshot # None

====
